---- MODULE Spec2Model ----
(***************************************************************************)
(* State-machine model of the quiz engines of wakaru-dekita-site:          *)
(*   - QuizCore  (src/js/quiz-core.js)                                     *)
(*   - MathGame  (src/apps/refactored/jest.config.js, lines 72-693)        *)
(* A browser page runs exactly one engine, so the variable `page` selects  *)
(* the engine whose handlers are enabled.                                  *)
(*                                                                         *)
(* Strings are sequences of Unicode code points.  Japanese message texts   *)
(* are written in romaji, one model string per source string.              *)
(***************************************************************************)
EXTENDS Integers, Sequences, FiniteSets, TLC

VARIABLES
    page,          \* which engine this page runs: "quiz" | "math"
    api,           \* what QuizCore.create gave the host page: "returned" | "threw"
    config,        \* QuizCore.create(config): dailyGoal, allowNegative, appId
    state,         \* QuizCore `state` object
    els,           \* QuizCore DOM elements: input, feedback, nextBtn, problem
    localStorage,  \* per-browser storage: the daily key and the sound key
    clock,         \* the local calendar day (index into the calendar)
    timers,        \* number of pending retry-clear setTimeout callbacks
    gameState,     \* MathGame GameState object
    elements,      \* MathGame DOM elements: answer, feedback, nextBtn, stars, confetti
    call,          \* a function called on its own: name, argument, result
    shapeGame,     \* the ShapeExplorer game: GameState, audio, DOM, pending callbacks
    tone,          \* QuizCore tone player: the audio context and the tone last played
    otherTab,      \* a second page of the same app in another tab, in the background
    history        \* history variable: right daily-mode answers on the current date

vars == <<page, api, config, state, els, localStorage, clock, timers, gameState, elements,
         call, shapeGame, tone, otherTab, history>>

quizVars == <<api, config, state, els, localStorage, clock>>
mathVars == <<gameState, elements>>

----------------------------------------------------------------------------
(* Bounds of the model *)

MaxGoal == 2        \* largest configured dailyGoal
MaxDay == 2         \* last calendar day the clock reaches
MaxTimers == 1      \* pending retry-clear callbacks
RandDen == 4        \* Math.random() takes the values k/RandDen, k < RandDen
MaxAnswers == 3     \* choices clicked in one shape game
MaxPending == 0     \* callbacks still pending when a shape choice is clicked
MaxLen == 3         \* longest text a function is called on

\* submissions counted per page load: enough to reach the largest goal
MaxTotal == MaxGoal
\* largest `done` found in storage at first load: above the largest goal
MaxStoredDone == MaxGoal + 1

----------------------------------------------------------------------------
(* Characters and strings *)

IsAsciiDigit(c) == c \in 48..57
IsFullWidthDigit(c) == c \in 65296..65305      \* U+FF10 .. U+FF19

\* decimal value of a sequence of ASCII digits (0 for the empty sequence)
RECURSIVE DecVal(_)
DecVal(ds) ==
    IF ds = <<>> THEN 0
    ELSE 10 * DecVal(SubSeq(ds, 1, Len(ds) - 1)) + (ds[Len(ds)] - 48)

\* String(n) for a non-negative integer n
RECURSIVE ToStr(_)
ToStr(n) == IF n < 10 THEN <<48 + n>> ELSE ToStr(n \div 10) \o <<48 + (n % 10)>>

\* s.padStart(2,'0')
PadStart2(s) == IF Len(s) < 2 THEN <<48>> \o s ELSE s

\* the longest prefix of s made of ASCII digits
RECURSIVE DigitPrefix(_)
DigitPrefix(s) ==
    IF s = <<>> \/ ~IsAsciiDigit(Head(s)) THEN <<>>
    ELSE <<Head(s)>> \o DigitPrefix(Tail(s))

\* leading white space is skipped by parseInt and Number
RECURSIVE TrimStart(_)
TrimStart(s) == IF s # <<>> /\ Head(s) = 32 THEN TrimStart(Tail(s)) ELSE s

\* JavaScript numbers that matter here: an integer or NaN
NaN == [nan |-> TRUE, n |-> 0]
Num(k) == [nan |-> FALSE, n |-> k]

\* mutant: a text without a leading digit is read as 0, as Number('') is
parseInt_NoDigitsIsZero(s) ==
    LET t == TrimStart(s)
        neg == t # <<>> /\ Head(t) = 45
        signed == t # <<>> /\ Head(t) \in {43, 45}
        body == IF signed THEN Tail(t) ELSE t
        ds == DigitPrefix(body)
    IN  IF neg THEN Num(0 - DecVal(ds)) ELSE Num(DecVal(ds))

\* parseInt(s, 10): optional sign, then the leading run of digits; NaN if none
parseInt(s) ==
    LET t == TrimStart(s)
        neg == t # <<>> /\ Head(t) = 45
        signed == t # <<>> /\ Head(t) \in {43, 45}
        body == IF signed THEN Tail(t) ELSE t
        ds == DigitPrefix(body)
    IN  IF ds = <<>> THEN NaN
        ELSE IF neg THEN Num(0 - DecVal(ds)) ELSE Num(DecVal(ds))

\* v.replace(/[full-width 0-9]/g, s => fromCharCode(s.charCodeAt(0) - 0xFEE0))
toHalfWidthChar(c) == IF IsFullWidthDigit(c) THEN c - 65248 ELSE c

KeepDigitsAndMinus(c) == IsAsciiDigit(c) \/ c = 45

\* String(v ?? '') for an argument that is null or undefined
StringOrEmpty(x) == IF x.t = "string" THEN x.s ELSE <<>>

\* mutant: the minus sign is deleted too
normalizeDigits_DropsMinus(v) ==
    LET w == [i \in 1..Len(v) |-> toHalfWidthChar(v[i])]
    IN  SelectSeq(w, IsAsciiDigit)

\* normalizeDigits for a string
normalizeDigits(v) ==
    LET w == [i \in 1..Len(v) |-> toHalfWidthChar(v[i])]
    IN  SelectSeq(w, KeepDigitsAndMinus)

\* s.slice(0, n)
Slice(s, n) == SubSeq(s, 1, IF Len(s) < n THEN Len(s) ELSE n)

----------------------------------------------------------------------------
(* Calendar and todayKey *)

\* new Date() on calendar day i: 2026-09-30, 2026-10-01, 2026-10-02, ...
\* (getMonth() is zero-based)
DateOf(i) ==
    IF i = 0 THEN [year |-> 2026, month |-> 8, date |-> 30]
    ELSE [year |-> 2026, month |-> 9, date |-> i]

todayKeyOf(d) ==
    ToStr(d.year) \o <<45>> \o PadStart2(ToStr(d.month + 1)) \o <<45>> \o PadStart2(ToStr(d.date))

\* the key of each day of the calendar, computed once
todayKeys == [i \in 0..MaxDay |-> todayKeyOf(DateOf(i))]

todayKey(clk) == todayKeys[clk]

----------------------------------------------------------------------------
(* JavaScript values found in storage, and the persistence adapter *)

\* values of the `date` and `done` properties of a parsed record
JUndef == [t |-> "undefined", n |-> 0, s |-> <<>>]
JNum(k) == [t |-> "number", n |-> k, s |-> <<>>]
JStr(str) == [t |-> "string", n |-> 0, s |-> str]
JNull == [t |-> "null", n |-> 0, s |-> <<>>]

\* localStorage of a browser: "ok"; "full" when setItem throws (quota exceeded);
\* "denied" when every access throws (storage disabled for the site)
StorageAccess == {"ok", "full", "denied"}
getItemThrows(ls) == ls.access = "denied"
setItemThrows(ls) == ls.access # "ok"

\* what localStorage.getItem returns for a key
NoItem == [kind |-> "null", date |-> JUndef, done |-> JUndef]           \* null: key absent
Garbage == [kind |-> "malformed", date |-> JUndef, done |-> JUndef]     \* not JSON
JsonObject(dt, dn) == [kind |-> "object", date |-> dt, done |-> dn]     \* '{"date":..,"done":..}'
SoundItem(ch) == [kind |-> "text", date |-> JUndef, done |-> JStr(<<ch>>)]  \* '1' or '0'

\* JSON.stringify({date: todayKey(), done: state.dailyDone})
JSONstringify(dateKey, done) == JsonObject(JStr(dateKey), JNum(done))

\* safeJsonParse(raw) || {} : the object the record is read from
safeJsonParse(raw) ==
    IF raw.kind = "object" THEN [date |-> raw.date, done |-> raw.done]
    ELSE [date |-> JUndef, done |-> JUndef]

\* Number(x) for a string: decimal digits with an optional minus, "" is 0
NumberOfStr(str) ==
    LET neg == str # <<>> /\ Head(str) = 45
        body == IF neg THEN Tail(str) ELSE str
    IN  IF str = <<>> THEN Num(0)
        ELSE IF body # <<>> /\ DigitPrefix(body) = body
             THEN (IF neg THEN Num(0 - DecVal(body)) ELSE Num(DecVal(body)))
             ELSE NaN

\* Number(x || 0) || 0
NumberOrZero(x) ==
    IF x.t = "number" THEN x.n
    ELSE IF x.t = "string" THEN
        (IF NumberOfStr(x.s).nan THEN 0 ELSE NumberOfStr(x.s).n)
    ELSE 0

\* mutant: the record's date is not compared with today
loadDaily_IgnoreDate(ls, clk) == NumberOrZero(safeJsonParse(ls.daily).done)

\* loadDaily: the dailyDone it assigns when getItem returns
loadDaily(ls, clk) ==
    LET st == safeJsonParse(ls.daily)
    IN  IF st.date # JStr(todayKey(clk)) THEN 0 ELSE NumberOrZero(st.done)

\* mutant: the record is written before dailyDone is incremented
saveDaily_BeforeIncrement(ls, st, clk) ==
    [ls EXCEPT !.daily = JSONstringify(todayKey(clk), st.dailyDone - 1)]

\* saveDaily: the storage after it; a throwing setItem is caught
saveDaily(ls, st, clk) ==
    IF setItemThrows(ls) THEN ls
    ELSE [ls EXCEPT !.daily = JSONstringify(todayKey(clk), st.dailyDone)]

\* loadSound: the soundOn it assigns when getItem returns
loadSound(ls) ==
    IF ls.sound.kind = "null" THEN TRUE ELSE ls.sound = SoundItem(49)

\* saveSound: the storage after it; a throwing setItem is caught
saveSound(ls, st) ==
    IF setItemThrows(ls) THEN ls
    ELSE [ls EXCEPT !.sound = SoundItem(IF st.soundOn THEN 49 ELSE 48)]

----------------------------------------------------------------------------
(* QuizCore: messages, questions, inputs *)

MsgNone == <<"">>
MsgEnterNumber == <<"suuji wo irete ne!">>
MsgNonNegative == <<"0 ijou no suuji wo irete ne!">>
MsgCorrect == <<"seikai!">>
MsgGoalReached == <<"seikai! kyou no mission clear!">>
MsgWrong(answer) == <<"chigau yo. kotae wa ", answer, " da yo. mou ichido!">>
MsgDaily(goal) == <<"kyou no ", goal, " mon: seikai wo ", goal, " kai mezasou!">>

\* buildQuestion(state) => {text, answer}: the problems an app may build
Questions ==
    { [text |-> <<49, 43, 49>>, answer |-> 2],        \* "1+1"
      [text |-> <<50, 43, 48>>, answer |-> 2],        \* "2+0"
      [text |-> <<49, 45, 51>>, answer |-> 0 - 2] }   \* "1-3"

\* texts a user or a host page puts into the answer field
Inputs ==
    { <<>>,                 \* ""
      <<45>>,               \* "-"
      <<97>>,               \* "a"
      <<65298>>,            \* full-width 2
      <<45, 50>>,           \* "-2"
      <<49, 50>> }          \* "12"

\* config.appId of the page in view ("a")
AppId == <<97>>
Configs == [dailyGoal : 1..MaxGoal, allowNegative : BOOLEAN, appId : {AppId}]

\* storage contents a page load may find
StoredDone ==
    {JNum(k) : k \in (0 - 1)..MaxStoredDone} \cup {JUndef, JStr(<<50>>), JStr(<<97>>)}
StoredDaily ==
    {NoItem, Garbage}
        \cup {JsonObject(JStr(todayKey(1)), dn) : dn \in StoredDone}
        \cup {JsonObject(JStr(todayKey(0)), JNum(k)) : k \in 0..MaxGoal}

----------------------------------------------------------------------------
(* QuizCore: create *)

Feedback(msg, cls) == [text |-> msg, className |-> cls]

\* setFeedback(msg, ok)
setFeedback(msg, ok) == Feedback(msg, IF ok THEN "feedback ok" ELSE "feedback ng")

\* the DOM after newQuestion: problem text shown, input and feedback cleared,
\* next button hidden
newQuestionEls(q) ==
    [problem |-> q.text, input |-> <<>>, feedback |-> Feedback(MsgNone, "feedback"),
     nextBtn |-> "none"]

\* the `state` object literal create starts from
initialState(cfg) ==
    [mode |-> "practice", correct |-> 0, total |-> 0, streak |-> 0, dailyDone |-> 0,
     dailyGoal |-> cfg.dailyGoal, soundOn |-> TRUE, q |-> [text |-> <<>>, answer |-> 0]]

\* mutant: create does not read the sound preference
createState_SoundDefault(cfg, ls, clk, q) ==
    [mode |-> "practice", correct |-> 0, total |-> 0, streak |-> 0,
     dailyDone |-> loadDaily(ls, clk), dailyGoal |-> cfg.dailyGoal,
     soundOn |-> TRUE, q |-> q]

\* the `state` object after create: initial fields, then loadSound and loadDaily,
\* then the first newQuestion; getItem is called outside any try, so when it
\* throws create ends in loadSound with the object literal untouched
createState(cfg, ls, clk, q) ==
    IF getItemThrows(ls) THEN initialState(cfg)
    ELSE [mode |-> "practice", correct |-> 0, total |-> 0, streak |-> 0,
          dailyDone |-> loadDaily(ls, clk), dailyGoal |-> cfg.dailyGoal,
          soundOn |-> loadSound(ls), q |-> q]

\* the page before any engine ran on it (the other engine's variables)
NoQuizState ==
    [mode |-> "practice", correct |-> 0, total |-> 0, streak |-> 0, dailyDone |-> 0,
     dailyGoal |-> 3, soundOn |-> TRUE, q |-> [text |-> <<>>, answer |-> 0]]
NoQuizEls ==
    [problem |-> <<>>, input |-> <<>>, feedback |-> Feedback(MsgNone, "feedback"),
     nextBtn |-> "none"]
NoQuizConfig == [dailyGoal |-> 3, allowNegative |-> FALSE, appId |-> <<>>]

\* the DOM after create: the first question, or the page as served when create
\* threw before newQuestion
createEls(ls, q) == IF getItemThrows(ls) THEN NoQuizEls ELSE newQuestionEls(q)

\* what the caller of create gets: the api object, or the exception
createApi(ls) == IF getItemThrows(ls) THEN "threw" ELSE "returned"
\* no history is kept
NoHistory == [kept |-> FALSE, today |-> 0]
\* no second tab
NoTab == [open |-> FALSE]
\* the page does not load the shape game
NoShapeGame == [screen |-> "none"]
NoStorage == [daily |-> NoItem, sound |-> NoItem, access |-> "ok", others |-> <<>>]

----------------------------------------------------------------------------
(* QuizCore: check *)

\* mutant: the negative test is missing
checkBranch_NoNegativeTest(v, allowNegative) ==
    LET raw == normalizeDigits(v)
    IN  IF raw = <<>> THEN "empty"
        ELSE IF parseInt(raw).nan THEN "nan"
        ELSE "compare"

\* the validation branch check() takes for the text v of the answer field
checkBranch(v, allowNegative) ==
    LET raw == normalizeDigits(v)
        ans == parseInt(raw)
    IN  IF raw = <<>> THEN "empty"
        ELSE IF ans.nan THEN "nan"
        ELSE IF ~allowNegative /\ ans.n < 0 THEN "negative"
        ELSE "compare"

\* the integer check() compares with the answer
checkAns(v) == parseInt(normalizeDigits(v)).n

\* the message of a rejected submission
rejectMessage(branch) ==
    IF branch = "negative" THEN MsgNonNegative ELSE MsgEnterNumber

\* the daily branch of a correct answer is taken
dailyCounts(st) == st.mode = "daily" /\ st.dailyDone < st.dailyGoal

\* mutant: the streak is not incremented
onCorrect_NoStreak(st) == [st EXCEPT !.total = @ + 1, !.correct = @ + 1]

\* state after a correct answer
onCorrect(st) ==
    LET c == [st EXCEPT !.total = @ + 1, !.correct = @ + 1, !.streak = @ + 1]
    IN  IF dailyCounts(c) THEN [c EXCEPT !.dailyDone = @ + 1] ELSE c

\* mutant: the streak survives a wrong answer
onWrong_KeepStreak(st) == [st EXCEPT !.total = @ + 1]

\* state after a wrong answer
onWrong(st) == [st EXCEPT !.total = @ + 1, !.streak = 0]

\* createTonePlayer(): audioCtx is null until the first beep; `available` says
\* whether the browser can construct an AudioContext
createTonePlayer(audioAvailable) ==
    [available |-> audioAvailable, audioCtx |-> FALSE, last |-> "none"]

\* no tone player: the page is not a QuizCore page
NoTone == createTonePlayer(FALSE)

\* ensure(): the constructor runs in try/catch
ensure(tn) == IF tn.audioCtx \/ ~tn.available THEN tn ELSE [tn EXCEPT !.audioCtx = TRUE]

\* beep(seq): nothing without an audio context
beep(tn, seq) ==
    LET ctx == ensure(tn)
    IN  IF ~ctx.audioCtx THEN ctx ELSE [ctx EXCEPT !.last = seq]

\* tone.ok / tone.ng behind `if(state.soundOn)`
toneOk(st, tn) == IF st.soundOn THEN beep(tn, "ok") ELSE tn
toneNg(st, tn) == IF st.soundOn THEN beep(tn, "ng") ELSE tn

\* the success message, chosen after the update
correctMessage(st) ==
    IF st.mode = "daily" /\ st.dailyDone >= st.dailyGoal THEN MsgGoalReached ELSE MsgCorrect

\* mutant: a rejected submission is counted
QCReject_Counted(branch) ==
    /\ els' = [els EXCEPT !.feedback = setFeedback(rejectMessage(branch), FALSE)]
    /\ state' = [state EXCEPT !.total = @ + 1]
    /\ tone' = toneNg(state, tone)
    /\ UNCHANGED <<localStorage, timers>>

\* check() rejected the input: feedback only
QCReject(branch) ==
    /\ els' = [els EXCEPT !.feedback = setFeedback(rejectMessage(branch), FALSE)]
    /\ tone' = toneNg(state, tone)
    /\ UNCHANGED <<state, localStorage, timers>>

\* mutant: the exception of a failing setItem ends the handler before the
\* feedback is shown
QCCorrect_WriteThrows ==
    /\ state.total < MaxTotal
    /\ state' = onCorrect(state)
    /\ localStorage' = localStorage
    /\ els' = IF dailyCounts(state) /\ setItemThrows(localStorage) THEN els
              ELSE [els EXCEPT !.feedback = setFeedback(correctMessage(state'), TRUE),
                               !.nextBtn = "inline-flex"]
    /\ tone' = toneOk(state, tone)
    /\ UNCHANGED timers

\* check(): the answer is right
QCCorrect ==
    /\ state.total < MaxTotal
    /\ state' = onCorrect(state)
    /\ localStorage' = IF dailyCounts(state) THEN saveDaily(localStorage, state', clock)
                       ELSE localStorage
    /\ els' = [els EXCEPT !.feedback = setFeedback(correctMessage(state'), TRUE),
                          !.nextBtn = "inline-flex"]
    /\ tone' = toneOk(state, tone)
    /\ UNCHANGED timers

QCWrong ==
    /\ state.total < MaxTotal
    /\ timers < MaxTimers
    /\ state' = onWrong(state)
    /\ els' = [els EXCEPT !.feedback = setFeedback(MsgWrong(state.q.answer), FALSE)]
    /\ timers' = timers + 1
    /\ tone' = toneNg(state, tone)
    /\ UNCHANGED localStorage

\* the history after a submission: a right answer given in daily mode is
\* recorded when the history is kept
recorded(h, st, after) ==
    IF h.kept /\ st.mode = "daily" /\ after.correct = st.correct + 1
    THEN [h EXCEPT !.today = @ + 1]
    ELSE h

QCCheck ==
    /\ page = "quiz"
    /\ LET branch == checkBranch(els.input, config.allowNegative)
       IN  IF branch # "compare" THEN QCReject(branch)
           ELSE IF checkAns(els.input) = state.q.answer THEN QCCorrect
           ELSE QCWrong
    /\ history' = recorded(history, state, state')
    /\ UNCHANGED <<page, api, config, clock, mathVars, call, shapeGame, otherTab>>

\* check() as a function of what it reads: the state, the elements, the
\* storage and the tone player after it, and the callbacks it scheduled
check(cfg, st, e, ls, clk, tn) ==
    LET branch == checkBranch(e.input, cfg.allowNegative)
    IN  IF branch # "compare"
        THEN [state |-> st,
              els |-> [e EXCEPT !.feedback = setFeedback(rejectMessage(branch), FALSE)],
              localStorage |-> ls, tone |-> toneNg(st, tn), scheduled |-> 0]
        ELSE IF checkAns(e.input) = st.q.answer
        THEN [state |-> onCorrect(st),
              els |-> [e EXCEPT !.feedback = setFeedback(correctMessage(onCorrect(st)), TRUE),
                                !.nextBtn = "inline-flex"],
              localStorage |-> IF dailyCounts(st) THEN saveDaily(ls, onCorrect(st), clk)
                               ELSE ls,
              tone |-> toneOk(st, tn), scheduled |-> 0]
        ELSE [state |-> onWrong(st),
              els |-> [e EXCEPT !.feedback = setFeedback(MsgWrong(st.q.answer), FALSE)],
              localStorage |-> ls, tone |-> toneNg(st, tn), scheduled |-> 1]

\* the callback a wrong answer schedules: els.input.value = ''
retryClear(e) == [e EXCEPT !.input = <<>>]

\* mutant: the callback fires without touching the answer field
QCRetryClear_KeepsInput ==
    /\ page = "quiz"
    /\ timers > 0
    /\ timers' = timers - 1
    /\ els' = els
    /\ UNCHANGED <<page, api, config, state, localStorage, clock, mathVars, call, shapeGame, tone, otherTab, history>>

\* the retry-clear callback scheduled by a wrong answer fires
QCRetryClear ==
    /\ page = "quiz"
    /\ timers > 0
    /\ timers' = timers - 1
    /\ els' = retryClear(els)
    /\ UNCHANGED <<page, api, config, state, localStorage, clock, mathVars, call, shapeGame, tone, otherTab, history>>

----------------------------------------------------------------------------
(* QuizCore: the other handlers *)

\* mutant: a new question also restarts the streak
QCNewQuestion_ResetsStreak ==
    /\ page = "quiz"
    /\ \E q \in Questions :
        /\ state' = [state EXCEPT !.q = q, !.streak = 0]
        /\ els' = newQuestionEls(q)
    /\ UNCHANGED <<page, api, config, localStorage, clock, timers, mathVars, call, shapeGame, tone, otherTab, history>>

QCNewQuestion ==
    /\ page = "quiz"
    /\ \E q \in Questions :
        /\ state' = [state EXCEPT !.q = q]
        /\ els' = newQuestionEls(q)
    /\ UNCHANGED <<page, api, config, localStorage, clock, timers, mathVars, call, shapeGame, tone, otherTab, history>>

\* mutant: the loaded count is added to the count in memory
QCStartDaily_Accumulates ==
    /\ page = "quiz"
    /\ \E q \in Questions :
        /\ state' = [state EXCEPT !.mode = "daily",
                                  !.dailyDone = @ + loadDaily(localStorage, clock),
                                  !.q = q]
        /\ els' = [problem |-> q.text, input |-> <<>>,
                   feedback |-> [text |-> MsgNone, className |-> "feedback"],
                   nextBtn |-> "none"]
    /\ UNCHANGED <<page, api, config, localStorage, clock, timers, gameState, elements, call, shapeGame, tone, otherTab, history>>

\* startDaily: mode, loadDaily, the announcement, then newQuestion (which
\* clears the feedback element again); when getItem throws the handler ends
\* in loadDaily, after the mode was set
QCStartDaily ==
    /\ page = "quiz"
    /\ IF getItemThrows(localStorage)
       THEN /\ state' = [state EXCEPT !.mode = "daily"]
            /\ els' = els
       ELSE \E q \in Questions :
            /\ state' = [state EXCEPT !.mode = "daily",
                                      !.dailyDone = loadDaily(localStorage, clock),
                                      !.q = q]
            /\ els' = newQuestionEls(q)
    /\ UNCHANGED <<page, api, config, localStorage, clock, timers, mathVars, call, shapeGame, tone, otherTab, history>>

QCStartPractice ==
    /\ page = "quiz"
    /\ \E q \in Questions :
        /\ state' = [state EXCEPT !.mode = "practice", !.q = q]
        /\ els' = newQuestionEls(q)
    /\ UNCHANGED <<page, api, config, localStorage, clock, timers, mathVars, call, shapeGame, tone, otherTab, history>>

\* the sound button: toggle, then saveSound
QCToggleSound ==
    /\ page = "quiz"
    /\ state' = [state EXCEPT !.soundOn = ~@]
    /\ localStorage' = saveSound(localStorage, state')
    /\ UNCHANGED <<page, api, config, els, clock, timers, mathVars, call, shapeGame, tone, otherTab, history>>

\* the 'input' listener: the typed text is normalized and cut to 4 characters
QCTypeInput ==
    /\ page = "quiz"
    /\ \E s \in Inputs : els' = [els EXCEPT !.input = Slice(normalizeDigits(s), 4)]
    /\ UNCHANGED <<page, api, config, state, localStorage, clock, timers, mathVars, call, shapeGame, tone, otherTab, history>>

\* a host page sets the field's value directly (no 'input' event) to one of
\* the given texts
QCSetInputOf(texts) ==
    /\ page = "quiz"
    /\ \E s \in texts : els' = [els EXCEPT !.input = s]
    /\ UNCHANGED <<page, api, config, state, localStorage, clock, timers, mathVars, call, shapeGame, tone, otherTab, history>>

QCSetInput == QCSetInputOf(Inputs)

\* the page is loaded again: QuizCore.create runs on the storage left behind;
\* callbacks of the old page are gone
QCReload ==
    /\ page = "quiz"
    /\ \E q \in Questions :
        /\ state' = createState(config, localStorage, clock, q)
        /\ els' = createEls(localStorage, q)
    /\ api' = createApi(localStorage)
    /\ timers' = 0
    /\ tone' = createTonePlayer(tone.available)
    /\ UNCHANGED <<page, config, localStorage, clock, mathVars, call, shapeGame, otherTab, history>>

\* the page as a tab in the background holds it
Tab(a, st, e, t, tn) ==
    [open |-> TRUE, api |-> a, state |-> st, els |-> e, timers |-> t, tone |-> tn]

\* the user opens the same app in a second tab: QuizCore.create runs there on
\* the storage both share; the first page stays as it is, in the background
QCOpenTab ==
    /\ page = "quiz"
    /\ ~otherTab.open
    /\ otherTab' = Tab(api, state, els, timers, tone)
    /\ \E q \in Questions :
        /\ state' = createState(config, localStorage, clock, q)
        /\ els' = createEls(localStorage, q)
    /\ api' = createApi(localStorage)
    /\ timers' = 0
    /\ tone' = createTonePlayer(tone.available)
    /\ UNCHANGED <<page, config, localStorage, clock, mathVars, call, shapeGame, history>>

\* the user turns to the other tab
QCSwitchTab ==
    /\ page = "quiz"
    /\ otherTab.open
    /\ otherTab' = Tab(api, state, els, timers, tone)
    /\ api' = otherTab.api
    /\ state' = otherTab.state
    /\ els' = otherTab.els
    /\ timers' = otherTab.timers
    /\ tone' = otherTab.tone
    /\ UNCHANGED <<page, config, localStorage, clock, mathVars, call, shapeGame, history>>

\* local midnight passes
Midnight ==
    /\ page = "quiz"
    /\ clock < MaxDay
    /\ clock' = clock + 1
    /\ history' = [history EXCEPT !.today = 0]
    /\ UNCHANGED <<page, api, config, state, els, localStorage, timers, mathVars, call, shapeGame, tone, otherTab>>

\* QuizCore.create(cfg) on the storage ls, in a browser where an AudioContext
\* can or cannot be constructed
InitPage(cfgs, stores, browsers) ==
    /\ page = "quiz"
    /\ config \in cfgs
    /\ clock = 1
    /\ localStorage \in stores
    /\ \E q \in Questions :
        /\ state = createState(config, localStorage, clock, q)
        /\ els = createEls(localStorage, q)
    /\ api = createApi(localStorage)
    /\ timers = 0
    /\ shapeGame = NoShapeGame
    /\ \E audioAvailable \in browsers : tone = createTonePlayer(audioAvailable)
    /\ otherTab = NoTab

InitQuizIn(cfgs, stores, browsers) ==
    /\ InitPage(cfgs, stores, browsers)
    /\ history = NoHistory

\* QuizCore.create(cfg) in a browser without Web Audio
InitQuiz(cfgs, stores) == InitQuizIn(cfgs, stores, {FALSE})

----------------------------------------------------------------------------
(* MathGame *)

DIFFICULTY_RANGES ==
    [easy |-> [min |-> 1, max |-> 10],
     medium |-> [min |-> 1, max |-> 20],
     hard |-> [min |-> 1, max |-> 50]]

Levels == {"easy", "medium", "hard"}

\* the values Math.random() takes: the fractions k/RandDen and the largest
\* value below 1 (1 - 2^-20 stands for 1 - 2^-53: same floors for n < 2^20)
RandomMax == [num |-> 1048575, den |-> 1048576]
Randoms == {[num |-> k, den |-> RandDen] : k \in 0..(RandDen - 1)} \cup {RandomMax}

\* Math.floor(Math.random() * n) for the random value r
floorRandom(r, n) == (r.num * n) \div r.den

MsgValidation == <<"suuji wo irete ne!">>
encouragementsLength == 9
tryAgainMessagesLength == 6
MsgEncouragement(i) == <<"encouragements", i>>
MsgTryAgain(i) == <<"tryAgainMessages", i>>

\* InputValidator.convertToHalfWidth
convertToHalfWidth(str) == [i \in 1..Len(str) |-> toHalfWidthChar(str[i])]

\* mutant: the minus sign is kept, as in normalizeDigits
extractNumbers_KeepsMinus(str) == SelectSeq(str, KeepDigitsAndMinus)

\* InputValidator.extractNumbers
extractNumbers(str) == SelectSeq(str, IsAsciiDigit)

\* InputValidator.validateInput for a string
validateInput(inputValue) ==
    LET processedValue == extractNumbers(convertToHalfWidth(inputValue))
        numericValue == parseInt(processedValue)
    IN  IF inputValue = <<>>
        THEN [isValid |-> FALSE, value |-> JNull, error |-> JStr(MsgValidation)]
        ELSE IF numericValue.nan
             THEN [isValid |-> FALSE, value |-> JNull, error |-> JStr(MsgValidation)]
             ELSE [isValid |-> TRUE, value |-> JNum(numericValue.n), error |-> JNull]

\* InputValidator.validateInput for any argument: null and undefined are falsy
validateInputOf(x) ==
    IF x.t # "string"
    THEN [isValid |-> FALSE, value |-> JNull, error |-> JStr(MsgValidation)]
    ELSE validateInput(x.s)

\* mutant: the random factor is the size of the closed range plus one
generateProblem_MaxPlusOne(difficulty, k1, k2) ==
    LET range == DIFFICULTY_RANGES[difficulty]
        num1 == floorRandom(k1, range.max + 1) + range.min
        num2 == floorRandom(k2, range.max + 1) + range.min
    IN  [num1 |-> num1, num2 |-> num2, answer |-> num1 + num2]

\* mutant: the operands are spread over max - min + 1 values
generateProblemIn_SpanOfRange(range, k1, k2) ==
    LET num1 == floorRandom(k1, range.max - range.min + 1) + range.min
        num2 == floorRandom(k2, range.max - range.min + 1) + range.min
    IN  [num1 |-> num1, num2 |-> num2, answer |-> num1 + num2]

\* ProblemGenerator.generateProblem once `range` is read, for the random
\* values k1, k2
generateProblemIn(range, k1, k2) ==
    LET num1 == floorRandom(k1, range.max) + range.min
        num2 == floorRandom(k2, range.max) + range.min
    IN  [num1 |-> num1, num2 |-> num2, answer |-> num1 + num2]

\* ProblemGenerator.generateProblem for the random values k1, k2
generateProblem(difficulty, k1, k2) ==
    generateProblemIn(DIFFICULTY_RANGES[difficulty], k1, k2)

\* UIManager.clearInputAndFeedback
clearInputAndFeedback(e) ==
    [e EXCEPT !.answer = <<>>, !.feedback = Feedback(MsgNone, "feedback"),
              !.nextBtn = FALSE]

\* MathGame.updateGameStats
updateGameStats(gs) == [gs EXCEPT !.totalCount = @ + 1]

\* mutant: a correct answer leaves the problem open
handleCorrectAnswer_StaysOpen(gs) ==
    [gs EXCEPT !.correctCount = @ + 1, !.streakCount = @ + 1]

\* MathGame.handleCorrectAnswer: the game state after it
handleCorrectAnswer(gs) ==
    [gs EXCEPT !.correctCount = @ + 1, !.streakCount = @ + 1, !.isAnswered = TRUE]

\* MathGame.handleIncorrectAnswer: the game state after it
handleIncorrectAnswer(gs) == [gs EXCEPT !.streakCount = 0]

\* MathGame.generateNewProblem (the next button, init, setDifficulty)
MGNewProblem(difficulty) ==
    \E k1 \in Randoms, k2 \in Randoms :
        /\ gameState' = [gameState EXCEPT !.difficulty = difficulty,
                             !.currentProblem = generateProblem(difficulty, k1, k2),
                             !.isAnswered = FALSE]
        /\ elements' = clearInputAndFeedback(elements)

MGGenerateNewProblem ==
    /\ page = "math"
    /\ MGNewProblem(gameState.difficulty)
    /\ UNCHANGED <<page, timers, quizVars, call, shapeGame, tone, otherTab, history>>

MGSetDifficulty ==
    /\ page = "math"
    /\ \E level \in Levels : MGNewProblem(level)
    /\ UNCHANGED <<page, timers, quizVars, call, shapeGame, tone, otherTab, history>>

MGInvalid(validation) ==
    /\ elements' = [elements EXCEPT
                        !.feedback = Feedback(validation.error.s, "feedback incorrect")]
    /\ UNCHANGED <<gameState, timers>>

\* EffectsManager.createStars / createConfetti for the n-th correct answer:
\* the particles appended to the container; each gets a cleanup callback (one
\* element stands for the 12 stars, one for the 30 confetti pieces of a call)
createParticles(container, n) == container \cup {n}

\* the callback of scheduleCleanup: the element is removed if it has a parent
scheduleCleanup(container, element) ==
    IF element \in container THEN container \ {element} ELSE container

MGCorrect ==
    /\ gameState.totalCount < MaxTotal
    /\ gameState' = handleCorrectAnswer(updateGameStats(gameState))
    /\ \E k \in Randoms :
        elements' = [elements EXCEPT
            !.feedback = Feedback(MsgEncouragement(floorRandom(k, encouragementsLength)),
                                  "feedback correct"),
            !.nextBtn = TRUE,
            !.stars = createParticles(@, gameState'.correctCount),
            !.confetti = createParticles(@, gameState'.correctCount)]
    /\ UNCHANGED timers

MGIncorrect ==
    /\ gameState.totalCount < MaxTotal
    /\ timers < MaxTimers
    /\ gameState' = handleIncorrectAnswer(updateGameStats(gameState))
    /\ \E k \in Randoms :
        elements' = [elements EXCEPT
            !.feedback = Feedback(MsgTryAgain(floorRandom(k, tryAgainMessagesLength)),
                                  "feedback incorrect")]
    /\ timers' = timers + 1

\* MathGame.checkAnswer / processAnswer
MGCheckAnswer ==
    /\ page = "math"
    /\ LET validation == validateInput(elements.answer)
       IN  IF gameState.isAnswered THEN UNCHANGED <<gameState, elements, timers>>
           ELSE IF ~validation.isValid THEN MGInvalid(validation)
           ELSE IF validation.value.n = gameState.currentProblem.answer THEN MGCorrect
           ELSE MGIncorrect
    /\ UNCHANGED <<page, quizVars, call, shapeGame, tone, otherTab, history>>

\* the retry-clear callback of displayIncorrectFeedback fires
MGRetryClear ==
    /\ page = "math"
    /\ timers > 0
    /\ timers' = timers - 1
    /\ elements' = [elements EXCEPT !.answer = <<>>]
    /\ UNCHANGED <<page, gameState, quizVars, call, shapeGame, tone, otherTab, history>>

\* a cleanup callback of a star or of a confetti piece fires
MGCleanupStar ==
    /\ page = "math"
    /\ \E star \in elements.stars :
        elements' = [elements EXCEPT !.stars = scheduleCleanup(@, star)]
    /\ UNCHANGED <<page, gameState, timers, quizVars, call, shapeGame, tone, otherTab, history>>

MGCleanupConfetti ==
    /\ page = "math"
    /\ \E confetti \in elements.confetti :
        elements' = [elements EXCEPT !.confetti = scheduleCleanup(@, confetti)]
    /\ UNCHANGED <<page, gameState, timers, quizVars, call, shapeGame, tone, otherTab, history>>

\* the 'input' listener: digits only, at most 3
MGTypeAnswer ==
    /\ page = "math"
    /\ \E s \in Inputs :
        elements' = [elements EXCEPT
                        !.answer = Slice(extractNumbers(convertToHalfWidth(s)), 3)]
    /\ UNCHANGED <<page, gameState, timers, quizVars, call, shapeGame, tone, otherTab, history>>

\* a script fills the field directly (no 'input' event)
MGSetAnswer ==
    /\ page = "math"
    /\ \E s \in Inputs : elements' = [elements EXCEPT !.answer = s]
    /\ UNCHANGED <<page, gameState, timers, quizVars, call, shapeGame, tone, otherTab, history>>

\* new GameState(), then init(): one generated problem
InitMath ==
    /\ page = "math"
    /\ \E k1 \in Randoms, k2 \in Randoms :
        gameState = [currentProblem |-> generateProblem("easy", k1, k2),
                     correctCount |-> 0, totalCount |-> 0, streakCount |-> 0,
                     isAnswered |-> FALSE, difficulty |-> "easy"]
    /\ elements = [answer |-> <<>>, feedback |-> Feedback(MsgNone, "feedback"),
                   nextBtn |-> FALSE, stars |-> {}, confetti |-> {}]
    /\ timers = 0
    /\ shapeGame = NoShapeGame
    /\ tone = NoTone
    /\ otherTab = NoTab
    /\ history = NoHistory

NoMathState ==
    [currentProblem |-> [num1 |-> 0, num2 |-> 0, answer |-> 0],
     correctCount |-> 0, totalCount |-> 0, streakCount |-> 0,
     isAnswered |-> FALSE, difficulty |-> "easy"]
NoMathElements ==
    [answer |-> <<>>, feedback |-> Feedback(MsgNone, "feedback"), nextBtn |-> FALSE,
     stars |-> {}, confetti |-> {}]

----------------------------------------------------------------------------
(* The specifications *)

NoMath == gameState = NoMathState /\ elements = NoMathElements

\* no function is called on its own on an engine's page
NoCall == [fn |-> "none", kind |-> "none", arg |-> <<>>, ret |-> <<>>]

\* Spec: one page load of either engine in a browser with empty storage
Init ==
    \/ /\ InitQuiz(Configs, {NoStorage})
       /\ NoMath
       /\ call = NoCall
    \/ /\ InitMath
       /\ call = NoCall
       /\ api = "none"
       /\ config = NoQuizConfig
       /\ state = NoQuizState
       /\ els = NoQuizEls
       /\ localStorage = NoStorage
       /\ clock = 1

Next ==
    \/ QCCheck
    \/ QCRetryClear
    \/ QCNewQuestion
    \/ QCStartDaily
    \/ QCStartPractice
    \/ QCTypeInput
    \/ QCSetInput
    \/ QCReload
    \/ MGCheckAnswer
    \/ MGGenerateNewProblem
    \/ MGSetDifficulty
    \/ MGRetryClear
    \/ MGTypeAnswer
    \/ MGSetAnswer

Spec == Init /\ [][Next]_vars

\* SpecDaily: QuizCore over the days, on whatever an earlier session, an earlier
\* version of the app or another script of the site left in storage
InitDaily ==
    /\ InitQuiz({c \in Configs : ~c.allowNegative},
                [daily : StoredDaily, sound : {NoItem}, access : {"ok"}, others : {<<>>}])
    /\ NoMath
    /\ call = NoCall

NextDaily ==
    \/ QCCheck
    \/ QCRetryClear
    \/ QCNewQuestion
    \/ QCStartDaily
    \/ QCStartPractice
    \/ QCTypeInput
    \/ QCReload
    \/ Midnight

SpecDaily == InitDaily /\ [][NextDaily]_vars

\* SpecSound: QuizCore with the sound button and the daily mission, over page
\* loads and days
InitSound ==
    /\ InitQuiz({c \in Configs : ~c.allowNegative}, {NoStorage})
    /\ NoMath
    /\ call = NoCall

NextSound ==
    \/ QCToggleSound
    \/ QCCheck
    \/ QCRetryClear
    \/ QCNewQuestion
    \/ QCStartDaily
    \/ QCTypeInput
    \/ QCReload
    \/ Midnight

SpecSound == InitSound /\ [][NextSound]_vars

\* SpecStorage: QuizCore in browsers whose storage works, is full, or is denied,
\* holding what the app or anything else wrote under its keys
StoredSound == {NoItem, SoundItem(48), SoundItem(49), SoundItem(97)}

InitStorage ==
    /\ InitQuiz({c \in Configs : ~c.allowNegative},
                [daily : {NoItem, Garbage}, sound : StoredSound, access : StorageAccess,
                 others : {<<>>}])
    /\ NoMath
    /\ call = NoCall

NextStorage ==
    \/ QCToggleSound
    \/ QCCheck
    \/ QCRetryClear
    \/ QCStartDaily
    \/ QCTypeInput
    \/ QCReload

SpecStorage == InitStorage /\ [][NextStorage]_vars

\* SpecTimers: the engines with their delayed callbacks; the browser runs every
\* pending callback unless the page is left first
InitTimers ==
    \/ /\ InitQuiz({c \in Configs : ~c.allowNegative}, {NoStorage})
       /\ NoMath
       /\ call = NoCall
    \/ /\ InitMath
       /\ api = "none"
       /\ config = NoQuizConfig
       /\ state = NoQuizState
       /\ els = NoQuizEls
       /\ localStorage = NoStorage
       /\ clock = 1
       /\ call = NoCall

NextTimers ==
    \/ QCCheck
    \/ QCRetryClear
    \/ QCNewQuestion
    \/ QCTypeInput
    \/ QCReload
    \/ MGCheckAnswer
    \/ MGRetryClear
    \/ MGGenerateNewProblem
    \/ MGTypeAnswer

SpecTimers ==
    /\ InitTimers
    /\ [][NextTimers]_vars
    /\ WF_vars(QCRetryClear)
    /\ WF_vars(MGRetryClear)

\* SpecRequests: submissions and problem requests; the answer field is set
\* in one step and the callbacks of wrong answers stay pending
NextRequests ==
    \/ QCCheck
    \/ QCNewQuestion
    \/ QCStartDaily
    \/ QCStartPractice
    \/ QCSetInput
    \/ MGCheckAnswer
    \/ MGGenerateNewProblem
    \/ MGSetDifficulty
    \/ MGSetAnswer

SpecRequests == InitTimers /\ [][NextRequests]_vars

\* SpecCreate: QuizCore.create statement by statement, on storage that can be
\* read.  config.onInitUI is absent, a value that is no function, a function
\* that only reads its arguments, or one that writes to the state it is given;
\* the hooks here do not call the api before create returns.
Hooks == {"undefined", "string", "reads", "setsDailyMode"}
isFunction(h) == h \in {"reads", "setsDailyMode"}
hookEffect(h, st) == IF h = "setsDailyMode" THEN [st EXCEPT !.mode = "daily"] ELSE st

\* mutant: the first question is built before the hook runs
createProgram_QuestionFirst ==
    <<"loadSound", "loadDaily", "newQuestion", "onInitUI", "return">>

\* the statements of create after the wiring, in program order
createProgram == <<"loadSound", "loadDaily", "onInitUI", "newQuestion", "return">>

CreateAt(stmt) ==
    /\ page = "create"
    /\ call.ret.pc <= Len(createProgram)
    /\ createProgram[call.ret.pc] = stmt

CreateDid(events, seen) ==
    call' = [call EXCEPT !.ret = [pc |-> call.ret.pc + 1,
                                  trace |-> call.ret.trace \o events,
                                  seen |-> call.ret.seen \o seen]]

CreateLoadSound ==
    /\ CreateAt("loadSound")
    /\ state' = [state EXCEPT !.soundOn = loadSound(localStorage)]
    /\ CreateDid(<<"loadSound">>, <<>>)
    /\ UNCHANGED <<page, api, config, els, localStorage, clock, timers, mathVars, shapeGame, tone, otherTab, history>>

CreateLoadDaily ==
    /\ CreateAt("loadDaily")
    /\ state' = [state EXCEPT !.dailyDone = loadDaily(localStorage, clock)]
    /\ CreateDid(<<"loadDaily">>, <<>>)
    /\ UNCHANGED <<page, api, config, els, localStorage, clock, timers, mathVars, shapeGame, tone, otherTab, history>>

\* const api = {...}; if(typeof onInitUI==='function') onInitUI(state, api)
CreateInitUI ==
    /\ CreateAt("onInitUI")
    /\ IF isFunction(call.arg.onInitUI)
       THEN /\ state' = hookEffect(call.arg.onInitUI, state)
            /\ CreateDid(<<"onInitUI">>, <<[state |-> state, api |-> "api"]>>)
       ELSE /\ state' = state
            /\ CreateDid(<<>>, <<>>)
    /\ api' = "api"
    /\ UNCHANGED <<page, config, els, localStorage, clock, timers, mathVars, shapeGame, tone, otherTab, history>>

CreateNewQuestion ==
    /\ CreateAt("newQuestion")
    /\ \E q \in Questions :
        /\ state' = [state EXCEPT !.q = q]
        /\ els' = newQuestionEls(q)
    /\ CreateDid(<<"buildQuestion">>, <<>>)
    /\ UNCHANGED <<page, api, config, localStorage, clock, timers, mathVars, shapeGame, tone, otherTab, history>>

CreateReturn ==
    /\ CreateAt("return")
    /\ api' = "returned"
    /\ CreateDid(<<>>, <<>>)
    /\ UNCHANGED <<page, config, state, els, localStorage, clock, timers, mathVars, shapeGame, tone, otherTab, history>>

InitCreate ==
    /\ page = "create"
    /\ config \in Configs
    /\ clock = 1
    /\ localStorage \in [daily : StoredDaily, sound : StoredSound, access : {"ok"},
                        others : {<<>>}]
    /\ state = initialState(config)
    /\ els = NoQuizEls
    /\ api = "none"
    /\ timers = 0
    /\ NoMath
    /\ shapeGame = NoShapeGame
    /\ tone = NoTone
    /\ otherTab = NoTab
    /\ history = NoHistory
    /\ call \in {[fn |-> "QuizCore.create", kind |-> "create", arg |-> [onInitUI |-> h],
                  ret |-> [pc |-> 1, trace |-> <<>>, seen |-> <<>>]] : h \in Hooks}

NextCreate ==
    \/ CreateLoadSound
    \/ CreateLoadDaily
    \/ CreateInitUI
    \/ CreateNewQuestion
    \/ CreateReturn

SpecCreate == InitCreate /\ [][NextCreate]_vars

\* SpecApps: the apps of the site, one page at a time, on one localStorage.
\* localStorage.daily is the item under the DAILY_KEY of the page in view,
\* localStorage.sound the item under SOUND_KEY, localStorage.others the items
\* under the remaining keys.
AppIds == {<<97>>, <<98>>, <<115, 111, 117, 110, 100>>}     \* "a", "b", "sound"

\* mutant: one daily key for every app
DAILY_KEY_Shared(appId) ==
    <<119, 97, 107, 97, 114, 117, 46>> \o <<100, 97, 105, 108, 121, 46, 118, 50>>

\* `wakaru.${appId}.daily.v2`
DAILY_KEY(appId) ==
    <<119, 97, 107, 97, 114, 117, 46>> \o appId \o <<46, 100, 97, 105, 108, 121, 46, 118, 50>>

\* `wakaru.sound.v1`
SOUND_KEY == <<119, 97, 107, 97, 114, 117, 46, 115, 111, 117, 110, 100, 46, 118, 49>>

\* every stored item by key, for the page of app appId
allItems(ls, appId) ==
    [k \in (DOMAIN ls.others) \cup {DAILY_KEY(appId), SOUND_KEY} |->
        IF k = DAILY_KEY(appId) THEN ls.daily
        ELSE IF k = SOUND_KEY THEN ls.sound
        ELSE ls.others[k]]

\* the same storage as the page of app appId reads it
storageOf(items, appId, access) ==
    [daily |-> IF DAILY_KEY(appId) \in DOMAIN items THEN items[DAILY_KEY(appId)] ELSE NoItem,
     sound |-> items[SOUND_KEY],
     access |-> access,
     others |-> [k \in (DOMAIN items) \ {DAILY_KEY(appId), SOUND_KEY} |-> items[k]]]

\* the user opens the page of another app: its QuizCore.create runs on the
\* storage the site has; callbacks of the page left are gone
QCOpenApp ==
    /\ page = "quiz"
    /\ \E b \in AppIds \ {config.appId}, q \in Questions :
        LET ls == storageOf(allItems(localStorage, config.appId), b, localStorage.access)
            cfg == [config EXCEPT !.appId = b]
        IN  /\ config' = cfg
            /\ localStorage' = ls
            /\ state' = createState(cfg, ls, clock, q)
            /\ els' = createEls(ls, q)
            /\ api' = createApi(ls)
    /\ timers' = 0
    /\ tone' = createTonePlayer(tone.available)
    /\ UNCHANGED <<page, clock, mathVars, call, shapeGame, otherTab, history>>

StoredForApps == {NoItem, JsonObject(JStr(todayKey(1)), JNum(1))}

InitApps ==
    /\ \E a \in AppIds :
        InitQuiz({[dailyGoal |-> 1, allowNegative |-> FALSE, appId |-> a]},
                 [daily : StoredForApps, sound : {NoItem}, access : {"ok"},
                  others : [{DAILY_KEY(b) : b \in AppIds \ {a}} -> StoredForApps]])
    /\ NoMath
    /\ call = NoCall

NextApps ==
    \/ QCCheck
    \/ QCSetInput
    \/ QCStartDaily
    \/ QCToggleSound
    \/ QCOpenApp

SpecApps == InitApps /\ [][NextApps]_vars

\* SpecPure: functions called on their own: the text functions on every text
\* of up to MaxLen characters of Chars and on null and undefined, the problem
\* generators on game states with any difficulty key
Chars == {48, 55, 45, 43, 46, 32, 97, 65296, 65305}   \* 0 7 - + . space a, full-width 0 9
Strings == UNION {[1..n -> Chars] : n \in 0..MaxLen}
TextArgs == {JStr(str) : str \in Strings} \cup {JNull, JUndef}

NoEngine ==
    /\ api = "none"
    /\ config = NoQuizConfig
    /\ state = NoQuizState
    /\ els = NoQuizEls
    /\ localStorage = NoStorage
    /\ clock = 1
    /\ timers = 0
    /\ NoMath
    /\ shapeGame = NoShapeGame
    /\ tone = NoTone
    /\ otherTab = NoTab
    /\ history = NoHistory

engineVars ==
    <<page, api, config, state, els, localStorage, clock, timers, gameState, elements, shapeGame, tone, otherTab, history>>

\* the call fn(arg) returns ret
Returns(fn, ret) ==
    /\ page = "call"
    /\ call.fn = "none"
    /\ call' = [call EXCEPT !.fn = fn, !.ret = ret]
    /\ UNCHANGED engineVars

CallNormalizeDigits ==
    /\ call.kind = "text"
    /\ Returns("normalizeDigits", normalizeDigits(StringOrEmpty(call.arg)))

\* check(): const raw=normalizeDigits(els.input.value); const ans=parseInt(raw,10)
parseAnswer(v) ==
    LET raw == normalizeDigits(v)
    IN  IF raw = <<>> THEN NaN ELSE parseInt(raw)

CallParseAnswer ==
    /\ call.kind = "text"
    /\ call.arg.t = "string"
    /\ Returns("parseAnswer", parseAnswer(call.arg.s))

CallValidateInput ==
    /\ call.kind = "text"
    /\ Returns("validateInput", validateInputOf(call.arg))

\* mutant: an absent key falls back to the easy range
generateProblemOn_DefaultsToEasy(gs, k1, k2) ==
    LET key == IF gs.difficulty \in DOMAIN DIFFICULTY_RANGES THEN gs.difficulty ELSE "easy"
    IN  [threw |-> FALSE,
         gameState |-> [gs EXCEPT !.currentProblem = generateProblem(key, k1, k2)]]

\* ProblemGenerator.generateProblem on the game state gs: the exception or the
\* state it leaves; an absent key makes `range` undefined and reading range.max
\* throws before anything is stored
generateProblemOn(gs, k1, k2) ==
    IF gs.difficulty \notin DOMAIN DIFFICULTY_RANGES
    THEN [threw |-> TRUE, gameState |-> gs]
    ELSE [threw |-> FALSE,
          gameState |-> [gs EXCEPT !.currentProblem =
                                       generateProblem(gs.difficulty, k1, k2)]]

\* game states the generator is called on: a stored problem, any difficulty key
DifficultyKeys == Levels \cup {"unknown"}
MathArgs ==
    {[NoMathState EXCEPT !.currentProblem = generateProblem("easy", k1, k2),
                         !.difficulty = d] :
        k1 \in Randoms, k2 \in Randoms, d \in DifficultyKeys}

CallGenerateProblem ==
    /\ call.kind = "math"
    /\ call.fn = "none"
    /\ \E k1 \in Randoms, k2 \in Randoms :
        Returns("ProblemGenerator.generateProblem", generateProblemOn(call.arg, k1, k2))

\* ranges a test or a host page stores in DIFFICULTY_RANGES: the shipped ones,
\* one value wide, with a negative minimum, inverted (min > max), empty and
\* with a negative max
Ranges ==
    {DIFFICULTY_RANGES[d] : d \in Levels}
        \cup [min : {0 - 3, 0, 1, 10}, max : {0 - 1, 0, 1, 2, 5}]

\* generateProblem with DIFFICULTY_RANGES[difficulty] = call.arg
CallGenerateProblemIn ==
    /\ call.kind = "range"
    /\ call.fn = "none"
    /\ \E k1 \in Randoms, k2 \in Randoms :
        Returns("generateProblem(range)",
                [threw |-> FALSE, problem |-> generateProblemIn(call.arg, k1, k2)])

\* ShapeExplorer: the shape items (name, class) and the tiers of GameState.SHAPES
AllShapes ==
    << [name |-> "maru", class |-> "circle"],
       [name |-> "shikaku", class |-> "square"],
       [name |-> "sankaku", class |-> "triangle"],
       [name |-> "chouhoukei", class |-> "rectangle"],
       [name |-> "hishigata", class |-> "diamond"],
       [name |-> "daen", class |-> "oval"],
       [name |-> "hoshi", class |-> "star"],
       [name |-> "rokkaku", class |-> "hexagon"] >>
FirstShapes(n) == SubSeq(AllShapes, 1, n)
TiersOf(sizes) ==
    [easy |-> FirstShapes(sizes[1]), medium |-> FirstShapes(sizes[2]),
     hard |-> FirstShapes(sizes[3])]
SHAPES == TiersOf(<<4, 6, 8>>)

\* currentShape = null
NullShape == [name |-> "null", class |-> "null"]

\* Math.floor(Math.random() * n) takes every value of 0..n-1
RandomIndex(n) == 0..(n - 1)

\* array.splice(i, 1) on a copy: the array without its element at index i
removeAt(array, i) == SubSeq(array, 1, i) \o SubSeq(array, i + 2, Len(array))

\* mutant: the drawn item stays available
RECURSIVE pickChoices_WithReplacement(_, _, _)
pickChoices_WithReplacement(choices, availableShapes, numChoices) ==
    IF Len(choices) < numChoices /\ Len(availableShapes) > 0
    THEN UNION {pickChoices_WithReplacement(Append(choices, availableShapes[randomIndex + 1]),
                                            availableShapes, numChoices) :
                    randomIndex \in RandomIndex(Len(availableShapes))}
    ELSE {choices}

\* the while loop of generateProblem: every `choices` it can end with
RECURSIVE pickChoices(_, _, _)
pickChoices(choices, availableShapes, numChoices) ==
    IF Len(choices) < numChoices /\ Len(availableShapes) > 0
    THEN UNION {pickChoices(Append(choices, availableShapes[randomIndex + 1]),
                            removeAt(availableShapes, randomIndex), numChoices) :
                    randomIndex \in RandomIndex(Len(availableShapes))}
    ELSE {choices}

\* [shuffled[i], shuffled[j]] = [shuffled[j], shuffled[i]], zero-based
swap(shuffled, i, j) ==
    [shuffled EXCEPT ![i + 1] = shuffled[j + 1], ![j + 1] = shuffled[i + 1]]

\* the for loop of shuffleArray from index i down: every array it can end with
RECURSIVE shuffleFrom(_, _)
shuffleFrom(shuffled, i) ==
    IF i > 0
    THEN UNION {shuffleFrom(swap(shuffled, i, j), i - 1) : j \in RandomIndex(i + 1)}
    ELSE {shuffled}

shuffleArray(array) == shuffleFrom(array, Len(array) - 1)

\* what generateProblem returns
ReturnsNull == [null |-> TRUE, shape |-> NullShape, choices |-> <<>>]
ReturnsProblem(shape, choices) == [null |-> FALSE, shape |-> shape, choices |-> choices]

\* ShapeGenerator.generateProblem on the game state gs: every pair of the value
\* it can return and the state it leaves
ShapeGenerator_generateProblem(gs) ==
    LET known == gs.difficulty \in DOMAIN gs.SHAPES
        shapes == IF known THEN gs.SHAPES[gs.difficulty] ELSE <<>>
        numChoices == IF Len(shapes) < 4 THEN Len(shapes) ELSE 4
        problemsWith(randomShape) ==
            LET other(sh) == sh.name # randomShape.name
                availableShapes == SelectSeq(shapes, other)
                picked == pickChoices(<<randomShape>>, availableShapes, numChoices)
            IN  {ReturnsProblem(randomShape, currentChoices) :
                    currentChoices \in UNION {shuffleArray(choices) : choices \in picked}}
    IN  IF ~known \/ Len(shapes) = 0
        THEN {[returned |-> ReturnsNull, gameState |-> gs]}
        ELSE {[returned |-> problem,
               gameState |-> [gs EXCEPT !.currentShape = problem.shape,
                                        !.correctAnswer = problem.shape.name,
                                        !.currentChoices = problem.choices]] :
                problem \in UNION {problemsWith(shapes[i + 1]) :
                                       i \in RandomIndex(Len(shapes))}}

\* shape game states the generator is called on: SHAPES as shipped or with
\* smaller tiers (the field is public), any difficulty key, nothing stored yet
\* or a problem stored
TierSizes == {<<4, 6, 8>>, <<0, 1, 2>>, <<3, 5, 7>>}
StoredShapes ==
    {[currentShape |-> NullShape, correctAnswer |-> "", currentChoices |-> <<>>],
     [currentShape |-> AllShapes[2], correctAnswer |-> AllShapes[2].name,
      currentChoices |-> <<AllShapes[1], AllShapes[2]>>]}
ShapeArgs ==
    {[difficulty |-> d, SHAPES |-> TiersOf(sizes), currentShape |-> st.currentShape,
      correctAnswer |-> st.correctAnswer, currentChoices |-> st.currentChoices] :
        d \in DifficultyKeys, sizes \in TierSizes, st \in StoredShapes}

CallShapeGenerateProblem ==
    /\ call.kind = "shape"
    /\ call.fn = "none"
    /\ \E out \in ShapeGenerator_generateProblem(call.arg) :
        Returns("ShapeGenerator.generateProblem", out)

----------------------------------------------------------------------------
(* ShapeExplorer: the game *)

MsgSeikai == "seikai!"
MsgZannen == "zannen..."
ENCOURAGEMENTSLength == 8
ShapeEncouragement(i) == <<"ENCOURAGEMENTS", i>>

\* the problems the game is followed on: for the first and the last shape of
\* a tier, one outcome of generateProblem with that shape
shapeDraws[d \in Levels] ==
    LET gs == [difficulty |-> d, SHAPES |-> SHAPES, currentShape |-> NullShape,
               correctAnswer |-> "", currentChoices |-> <<>>]
        all == {out.returned : out \in ShapeGenerator_generateProblem(gs)}
    IN  {CHOOSE problem \in all : problem.shape = SHAPES[d][i] : i \in {1, Len(SHAPES[d])}}

\* AudioManager.playSound: heard when audio is enabled and a context exists
playSound(sg, sound) ==
    IF ~sg.audioEnabled \/ ~sg.audioContext THEN sg ELSE [sg EXCEPT !.lastSound = sound]

\* setTimeout(callback): the callback `kind` scheduled while handling answer id
Timer(kind, id, arg) == [kind |-> kind, id |-> id, arg |-> arg]
setTimeout(sg, timer) == [sg EXCEPT !.pending = @ \cup {timer}]

\* new ShapeExplorerGame() and setup(): the constructor of AudioManager tries
\* to create the audio context
newShapeGame(audioAvailable) ==
    [screen |-> "difficulty", difficulty |-> "easy", currentShape |-> NullShape,
     currentChoices |-> <<>>, correctAnswer |-> "", correctCount |-> 0, totalCount |-> 0,
     streakCount |-> 0, isAnswered |-> FALSE, audioEnabled |-> TRUE,
     audioContext |-> audioAvailable, lastSound |-> "none",
     shapeDisplay |-> "", buttons |-> <<>>,
     feedback |-> [text |-> "", className |-> "feedback", display |-> "none"],
     nextBtnHidden |-> TRUE, encouragement |-> [text |-> "", hidden |-> TRUE],
     stars |-> {}, confetti |-> {}, pending |-> {}]

\* mutant: reset forgets the streak
reset_KeepsStreak(sg) ==
    [sg EXCEPT !.currentShape = NullShape, !.currentChoices = <<>>, !.correctAnswer = "",
               !.correctCount = 0, !.totalCount = 0, !.isAnswered = FALSE]

\* GameState.reset
reset(sg) ==
    [sg EXCEPT !.currentShape = NullShape, !.currentChoices = <<>>, !.correctAnswer = "",
               !.correctCount = 0, !.totalCount = 0, !.streakCount = 0,
               !.isAnswered = FALSE]

\* ShapeExplorerGame.generateNewProblem when generateProblem returned problem
generateNewProblem(sg, problem) ==
    [sg EXCEPT !.currentShape = problem.shape,
               !.correctAnswer = problem.shape.name,
               !.currentChoices = problem.choices,
               !.isAnswered = FALSE,
               !.nextBtnHidden = TRUE,
               !.shapeDisplay = problem.shape.class,
               !.buttons = [i \in 1..Len(problem.choices) |->
                               [name |-> problem.choices[i].name, classes |-> {}]]]

\* ShapeExplorerGame.startGame
startGame(sg, difficulty, problem) ==
    playSound(generateNewProblem([reset([sg EXCEPT !.difficulty = difficulty])
                                     EXCEPT !.screen = "game"], problem),
              "click")

\* ShapeExplorerGame.nextProblem
nextProblem(sg, problem) == playSound(generateNewProblem(sg, problem), "click")

\* ShapeExplorerGame.backToDifficulty
backToDifficulty(sg) == playSound([sg EXCEPT !.screen = "difficulty"], "click")

\* ShapeExplorerGame.toggleAudio
toggleAudio(sg) ==
    LET toggled == [sg EXCEPT !.audioEnabled = ~@]
    IN  IF toggled.audioEnabled THEN playSound(toggled, "click") ELSE toggled

\* UIManager.showFeedback
showFeedback(sg, message, type) ==
    setTimeout([sg EXCEPT !.feedback = [text |-> message, className |-> type,
                                        display |-> "block"]],
               Timer("hideFeedback", sg.totalCount, 0))

\* EffectsManager.showStars / showConfetti (one star, one confetti piece stand
\* for the 12 and the 50 the loops schedule)
showStars(sg) == setTimeout([sg EXCEPT !.stars = {}], Timer("createStar", sg.totalCount, 0))
showConfetti(sg) == setTimeout(sg, Timer("createConfetti", sg.totalCount, 0))

\* UIManager.handleCorrectAnswer for the button at index i; m is the index the
\* random draw of the encouragement gave
handleShapeCorrect(sg, i, m) ==
    LET counted == [sg EXCEPT !.correctCount = @ + 1, !.streakCount = @ + 1,
                              !.buttons[i].classes = @ \cup {"correct"}]
        shown == showStars(showFeedback(playSound(counted, "correct"), MsgSeikai, "correct"))
        effects == IF shown.streakCount >= 3 THEN showConfetti(shown) ELSE shown
    IN  setTimeout(effects, Timer("showEncouragement", sg.totalCount, m))

\* UIManager.handleIncorrectAnswer for the button at index i
handleShapeIncorrect(sg, i) ==
    LET reset0 == [sg EXCEPT !.streakCount = 0,
                             !.buttons[i].classes = @ \cup {"incorrect"}]
    IN  setTimeout(showFeedback(playSound(reset0, "incorrect"), MsgZannen, "incorrect"),
                   Timer("highlight", sg.totalCount, 0))

\* mutant: without an audio context the click is dropped
handleChoice_NeedsAudio(sg, i, m) ==
    IF sg.isAnswered \/ ~sg.audioContext THEN sg
    ELSE LET clicked == [playSound(sg, "click") EXCEPT !.isAnswered = TRUE,
                                                       !.totalCount = @ + 1]
             done == IF sg.buttons[i].name = sg.correctAnswer
                     THEN handleShapeCorrect(clicked, i, m)
                     ELSE handleShapeIncorrect(clicked, i)
         IN  [done EXCEPT !.nextBtnHidden = FALSE]

\* UIManager.handleChoice: the onclick of the choice button at index i
handleChoice(sg, i, m) ==
    IF sg.isAnswered THEN sg
    ELSE LET clicked == [playSound(sg, "click") EXCEPT !.isAnswered = TRUE,
                                                       !.totalCount = @ + 1]
             done == IF sg.buttons[i].name = sg.correctAnswer
                     THEN handleShapeCorrect(clicked, i, m)
                     ELSE handleShapeIncorrect(clicked, i)
         IN  [done EXCEPT !.nextBtnHidden = FALSE]

\* mutant: classList.toggle in place of classList.add
highlightCorrectAnswer_Toggles(sg) ==
    [sg EXCEPT !.buttons = [i \in DOMAIN sg.buttons |->
        IF sg.buttons[i].name = sg.correctAnswer
        THEN [sg.buttons[i] EXCEPT !.classes = IF "correct" \in @ THEN @ \ {"correct"}
                                                ELSE @ \cup {"correct"}]
        ELSE sg.buttons[i]]]

\* UIManager.highlightCorrectAnswer
highlightCorrectAnswer(sg) ==
    [sg EXCEPT !.buttons = [i \in DOMAIN sg.buttons |->
        IF sg.buttons[i].name = sg.correctAnswer
        THEN [sg.buttons[i] EXCEPT !.classes = @ \cup {"correct"}]
        ELSE sg.buttons[i]]]

\* the removal callback of createStar / createConfetti: if (particle.parentNode)
removeParticle(container, particle) ==
    IF particle \in container THEN container \ {particle} ELSE container

\* what the callback `timer` does when it runs
callback(sg, timer) ==
    CASE timer.kind = "hideFeedback" -> [sg EXCEPT !.feedback.display = "none"]
      [] timer.kind = "highlight" -> highlightCorrectAnswer(sg)
      [] timer.kind = "showEncouragement" ->
            setTimeout([sg EXCEPT !.encouragement =
                            [text |-> ShapeEncouragement(timer.arg), hidden |-> FALSE]],
                       Timer("hideEncouragement", timer.id, 0))
      [] timer.kind = "hideEncouragement" -> [sg EXCEPT !.encouragement.hidden = TRUE]
      [] timer.kind = "createStar" ->
            setTimeout([sg EXCEPT !.stars = @ \cup {timer.id}],
                       Timer("removeStar", timer.id, 0))
      [] timer.kind = "removeStar" ->
            [sg EXCEPT !.stars = removeParticle(@, timer.id)]
      [] timer.kind = "createConfetti" ->
            setTimeout([sg EXCEPT !.confetti = @ \cup {timer.id}],
                       Timer("removeConfetti", timer.id, 0))
      [] timer.kind = "removeConfetti" ->
            [sg EXCEPT !.confetti = removeParticle(@, timer.id)]

ShapeVarsUnchanged == UNCHANGED <<page, quizVars, timers, mathVars, call, tone, otherTab, history>>

\* a difficulty button of one of the given tiers (the buttons are on the
\* difficulty screen)
SGStartGameOn(tiers) ==
    /\ page = "shape"
    /\ shapeGame.screen = "difficulty"
    /\ \E d \in tiers : \E problem \in shapeDraws[d] :
        shapeGame' = startGame(shapeGame, d, problem)
    /\ ShapeVarsUnchanged

SGStartGame == SGStartGameOn(Levels)

\* a choice button
SGHandleChoice ==
    /\ page = "shape"
    /\ shapeGame.screen = "game"
    /\ shapeGame.totalCount < MaxAnswers
    /\ Cardinality(shapeGame.pending) <= MaxPending
    /\ \E i \in DOMAIN shapeGame.buttons :
       \E m \in {0, ENCOURAGEMENTSLength - 1} :
        shapeGame' = handleChoice(shapeGame, i, m)
    /\ ShapeVarsUnchanged

\* the next button
SGNextProblem ==
    /\ page = "shape"
    /\ shapeGame.screen = "game"
    /\ ~shapeGame.nextBtnHidden
    /\ \E problem \in shapeDraws[shapeGame.difficulty] :
        shapeGame' = nextProblem(shapeGame, problem)
    /\ ShapeVarsUnchanged

\* the back button of the game screen
SGBackToDifficulty ==
    /\ page = "shape"
    /\ shapeGame.screen = "game"
    /\ shapeGame' = backToDifficulty(shapeGame)
    /\ ShapeVarsUnchanged

\* the audio button
SGToggleAudio ==
    /\ page = "shape"
    /\ shapeGame' = toggleAudio(shapeGame)
    /\ ShapeVarsUnchanged

\* a pending callback of the given kind runs
SGFire(kind) ==
    /\ page = "shape"
    /\ \E timer \in shapeGame.pending :
        /\ timer.kind = kind
        /\ shapeGame' = callback([shapeGame EXCEPT !.pending = @ \ {timer}], timer)
    /\ ShapeVarsUnchanged

SGHideFeedback == SGFire("hideFeedback")
SGHighlight == SGFire("highlight")
SGShowEncouragement == SGFire("showEncouragement")
SGHideEncouragement == SGFire("hideEncouragement")
SGCreateStar == SGFire("createStar")
SGRemoveStar == SGFire("removeStar")
SGCreateConfetti == SGFire("createConfetti")
SGRemoveConfetti == SGFire("removeConfetti")

NoQuiz ==
    /\ api = "none"
    /\ config = NoQuizConfig
    /\ state = NoQuizState
    /\ els = NoQuizEls
    /\ localStorage = NoStorage
    /\ clock = 1

\* the page of the shape game, in a browser with or without Web Audio
InitShape(browsers) ==
    /\ page = "shape"
    /\ \E audioAvailable \in browsers : shapeGame = newShapeGame(audioAvailable)
    /\ NoQuiz
    /\ NoMath
    /\ timers = 0
    /\ call = NoCall
    /\ tone = NoTone
    /\ otherTab = NoTab
    /\ history = NoHistory

\* SpecEffects: the three engines with every delayed callback
InitEffects ==
    \/ /\ InitQuiz({[dailyGoal |-> 1, allowNegative |-> FALSE, appId |-> AppId]},
                    [daily : {NoItem}, sound : {NoItem}, access : {"ok"}, others : {<<>>}])
       /\ NoMath
       /\ call = NoCall
    \/ /\ InitMath
       /\ NoQuiz
       /\ call = NoCall
    \/ InitShape({TRUE})

NextEffects ==
    \/ QCCheck
    \/ QCRetryClear
    \/ QCSetInput
    \/ QCNewQuestion
    \/ MGCheckAnswer
    \/ MGRetryClear
    \/ MGCleanupStar
    \/ MGCleanupConfetti
    \/ MGSetAnswer
    \/ SGStartGame
    \/ SGHandleChoice
    \/ SGNextProblem
    \/ SGHideFeedback
    \/ SGHighlight
    \/ SGShowEncouragement
    \/ SGHideEncouragement
    \/ SGCreateStar
    \/ SGRemoveStar
    \/ SGCreateConfetti
    \/ SGRemoveConfetti

SpecEffects == InitEffects /\ [][NextEffects]_vars

\* SpecAudio: the two engines that play sounds, in browsers with and without
\* Web Audio, with the sound preference stored on, off or not at all; of the
\* callbacks of the shape game those of a wrong choice run, the others stay
\* pending
InitAudio ==
    \/ /\ InitQuizIn({[dailyGoal |-> 1, allowNegative |-> FALSE, appId |-> AppId]},
                      [daily : {NoItem}, sound : StoredSound, access : {"ok"}, others : {<<>>}],
                      BOOLEAN)
       /\ NoMath
       /\ call = NoCall
    \/ InitShape(BOOLEAN)

NextAudio ==
    \/ QCCheck
    \/ QCSetInput
    \/ QCNewQuestion
    \/ QCStartDaily
    \/ QCToggleSound
    \/ SGStartGame
    \/ SGHandleChoice
    \/ SGNextProblem
    \/ SGToggleAudio
    \/ SGHideFeedback
    \/ SGHighlight

SpecAudio == InitAudio /\ [][NextAudio]_vars

\* SpecScores: the three engines with every handler that scores, asks a new
\* problem, switches mode or difficulty, or resets
InitScores ==
    \/ /\ InitQuiz({[dailyGoal |-> 1, allowNegative |-> FALSE, appId |-> AppId]}, {NoStorage})
       /\ NoMath
       /\ call = NoCall
    \/ /\ InitMath
       /\ NoQuiz
       /\ call = NoCall
    \/ InitShape({TRUE})

NextScores ==
    \/ QCCheck
    \/ QCSetInput
    \/ QCNewQuestion
    \/ QCStartDaily
    \/ QCStartPractice
    \/ QCReload
    \/ MGCheckAnswer
    \/ MGSetAnswer
    \/ MGGenerateNewProblem
    \/ MGSetDifficulty
    \/ SGStartGameOn({"easy"})
    \/ SGHandleChoice
    \/ SGNextProblem
    \/ SGBackToDifficulty
    \/ SGHideFeedback
    \/ SGHighlight
    \/ SGShowEncouragement
    \/ SGHideEncouragement
    \/ SGCreateStar
    \/ SGRemoveStar
    \/ SGCreateConfetti
    \/ SGRemoveConfetti

SpecScores == InitScores /\ [][NextScores]_vars

\* SpecTabs: one app open in two tabs of a browser, from empty storage
InitTabs ==
    /\ InitQuiz({c \in Configs : ~c.allowNegative /\ c.dailyGoal = MaxGoal}, {NoStorage})
    /\ NoMath
    /\ call = NoCall

NextTabs ==
    \/ QCCheck
    \/ QCSetInputOf({<<65298>>, <<49, 50>>})
    \/ QCStartDaily
    \/ QCOpenTab
    \/ QCSwitchTab

SpecTabs == InitTabs /\ [][NextTabs]_vars

\* SpecMidnight: one page from empty storage, kept open over midnight, with
\* the history of the right daily answers of the date
InitMidnight ==
    /\ InitPage({c \in Configs : ~c.allowNegative /\ c.dailyGoal = MaxGoal}, {NoStorage},
                {FALSE})
    /\ history = [kept |-> TRUE, today |-> 0]
    /\ NoMath
    /\ call = NoCall

NextMidnight ==
    \/ QCCheck
    \/ QCSetInputOf({<<65298>>, <<49, 50>>})
    \/ QCNewQuestion
    \/ QCStartDaily
    \/ QCStartPractice
    \/ Midnight

SpecMidnight == InitMidnight /\ [][NextMidnight]_vars

----------------------------------------------------------------------------

CallOf(kind, args) == {[fn |-> "none", kind |-> kind, arg |-> a, ret |-> <<>>] : a \in args}

InitPure ==
    /\ page = "call"
    /\ NoEngine
    /\ call \in CallOf("text", TextArgs) \cup CallOf("math", MathArgs)
                    \cup CallOf("shape", ShapeArgs) \cup CallOf("range", Ranges)

NextPure ==
    \/ CallNormalizeDigits
    \/ CallParseAnswer
    \/ CallValidateInput
    \/ CallGenerateProblem
    \/ CallGenerateProblemIn
    \/ CallShapeGenerateProblem

SpecPure == InitPure /\ [][NextPure]_vars

-----------------------------------------------------------------------------
(* Site pages: main.js and detail.js, one function or one page load at a
   time; the run is held in call, call.arg its inputs, call.ret its state *)

MaxAttempts == 3
DefaultAttempts == 10

SiteDid(ret) ==
    /\ call' = [call EXCEPT !.ret = ret]
    /\ UNCHANGED engineVars

\* main.js waitForElement: the promise before its executor has run
newWait(maxAttempts, present) ==
    [maxAttempts |-> maxAttempts, attempts |-> 0, present |-> present, timer |-> FALSE,
     outcome |-> "pending", settles |-> 0, called |-> FALSE]

\* one poll; resolve and reject settle the promise only the first time
checkElement_OffByOne(w) ==
    LET attempts == w.attempts + 1
        settle(o) == [w EXCEPT !.attempts = attempts, !.timer = FALSE,
                               !.outcome = IF w.outcome = "pending" THEN o ELSE w.outcome,
                               !.settles = w.settles + 1]
    IN  IF w.present THEN settle("resolved")
        ELSE IF attempts > w.maxAttempts THEN settle("rejected")
        ELSE [w EXCEPT !.attempts = attempts, !.timer = TRUE]

checkElement(w) ==
    LET attempts == w.attempts + 1
        settle(o) == [w EXCEPT !.attempts = attempts, !.timer = FALSE,
                               !.outcome = IF w.outcome = "pending" THEN o ELSE w.outcome,
                               !.settles = w.settles + 1]
    IN  IF w.present THEN settle("resolved")
        ELSE IF attempts >= w.maxAttempts THEN settle("rejected")
        ELSE [w EXCEPT !.attempts = attempts, !.timer = TRUE]

waitForElement(w) == checkElement([w EXCEPT !.called = TRUE])

WaitAt == page = "site" /\ call.kind = "wait"

\* waitForElement(selector, maxAttempts) is called: the first poll is synchronous
WFECall ==
    /\ WaitAt
    /\ ~call.ret.called
    /\ SiteDid(waitForElement(call.ret))

\* the 100 ms timer fires
WFETimer ==
    /\ WaitAt
    /\ call.ret.timer
    /\ SiteDid(checkElement(call.ret))

\* the page inserts or removes the element between two polls
WFEDom ==
    /\ WaitAt
    /\ SiteDid([call.ret EXCEPT !.present = ~call.ret.present])

WaitRuns ==
    {[fn |-> "waitForElement", kind |-> "wait", arg |-> [maxAttempts |-> n],
      ret |-> newWait(n, present)] :
        n \in (1..MaxAttempts) \cup {DefaultAttempts}, present \in BOOLEAN}

\* detail.js: the URL's id parameter, the catalogue, and what fetch does
NoParam == [given |-> FALSE, value |-> ""]
Param(v) == [given |-> TRUE, value |-> v]
App(id) == [id |-> id]
NoApp == [id |-> "undefined"]
Catalogues == {<<>>, <<App("addition")>>, <<App("addition"), App("shape")>>}
UrlParams == {NoParam, Param(""), Param("addition"), Param("shape"), Param("clock")}
WindowApps ==
    {[defined |-> FALSE, apps |-> <<>>]} \cup {[defined |-> TRUE, apps |-> c] : c \in Catalogues}
\* fetch('data/apps.json'): rejected (network error), a response that is not
\* ok, a body that is not JSON, JSON without an apps array, or the catalogue
Fetches ==
    {[result |-> r, apps |-> <<>>] : r \in {"rejected", "notOk", "badJson", "noApps"}}
        \cup {[result |-> "ok", apps |-> c] : c \in Catalogues}

\* getParam('id'): null when the URL has no such parameter
getParam(url) == url.id

\* !id
missing(id) == ~id.given \/ id.value = ""

\* apps.find(a => a.id === id)
find(apps, id) ==
    IF \E i \in DOMAIN apps : apps[i].id = id
    THEN apps[CHOOSE i \in DOMAIN apps :
                  /\ apps[i].id = id
                  /\ \A j \in DOMAIN apps : apps[j].id = id => i <= j]
    ELSE NoApp

\* the detail page before detail.js has done anything
newDetail(hasContainer) ==
    [hasContainer |-> hasContainer, container |-> "empty", iframe |-> "", title |-> "",
     renders |-> 0, calls |-> 0, pending |-> 0, threw |-> FALSE]

renderAppDetail(d, app) ==
    IF ~d.hasContainer THEN d
    ELSE IF app = NoApp
    THEN [d EXCEPT !.container = "notFound", !.iframe = "", !.renders = d.renders + 1]
    ELSE [d EXCEPT !.container = "detail", !.iframe = app.id, !.title = app.id,
                   !.renders = d.renders + 1]

\* initializeDetailPage up to its first await
initializeDetailPage(d, url, windowApps) ==
    LET id == getParam(url)
        called == [d EXCEPT !.calls = d.calls + 1]
    IN  IF missing(id) THEN renderAppDetail(called, NoApp)
        ELSE IF windowApps.defined /\ Len(windowApps.apps) > 0
        THEN renderAppDetail(called, find(windowApps.apps, id.value))
        ELSE [called EXCEPT !.pending = called.pending + 1]

\* ... and from the moment its fetch has settled: a rejected fetch, the
\* throw for a response that is not ok, a rejected response.json() and the
\* TypeError of data.apps.find all happen inside the try block
fetchSettled_NoCatch(d, url, fetch) ==
    LET id == getParam(url)
        resumed == [d EXCEPT !.pending = d.pending - 1]
    IN  IF fetch.result = "ok"
        THEN renderAppDetail(resumed, find(fetch.apps, id.value))
        ELSE [resumed EXCEPT !.threw = TRUE]

fetchSettled(d, url, fetch) ==
    LET id == getParam(url)
        resumed == [d EXCEPT !.pending = d.pending - 1]
        thrown == fetch.result # "ok"
    IN  IF ~thrown
        THEN renderAppDetail(resumed, find(fetch.apps, id.value))
        ELSE renderAppDetail(resumed, NoApp)

DetailAt == page = "site" /\ call.kind = "detail"

\* initializeDetailPage() is called
DetailCall ==
    /\ DetailAt
    /\ call.ret.calls = 0
    /\ SiteDid(initializeDetailPage(call.ret, call.arg.url, call.arg.windowApps))

\* its fetch settles
DetailFetchSettles ==
    /\ DetailAt
    /\ call.ret.pending > 0
    /\ SiteDid(fetchSettled(call.ret, call.arg.url, call.arg.fetch))

DetailRuns ==
    {[fn |-> "initializeDetailPage", kind |-> "detail",
      arg |-> [url |-> [id |-> u], windowApps |-> w, fetch |-> f],
      ret |-> newDetail(c)] :
        u \in UrlParams, w \in WindowApps, f \in Fetches, c \in BOOLEAN}

\* One page load.  phase 1: the document is being parsed; 2: parsed, deferred
\* scripts run; 3: DOMContentLoaded has been dispatched; 4: load has been
\* dispatched.  The script under study executes in phase call.arg.at.
Phases == 1..4
readyState(phase) ==
    IF phase = 1 THEN "loading" ELSE IF phase = 4 THEN "complete" ELSE "interactive"
isDOMReady(phase) == readyState(phase) \in {"complete", "interactive"}

newLoad(hasContainer) ==
    [phase |-> 1, executed |-> FALSE, registered |-> {}, pending |-> 0, inits |-> 0,
     listeners |-> 0, handled |-> 0, container |-> "empty", detail |-> newDetail(hasContainer)]

\* MathGame.init(): cacheDOMElements, setupEventListeners, generateNewProblem
MathGameInit(r) == [r EXCEPT !.inits = r.inits + 1, !.listeners = r.listeners + 1]

\* main.js renderApps(apps): the cards, or the "no results" alert
renderApps(r) == [r EXCEPT !.container = "apps"]

\* main.js initializeApp up to await loadAppData()
initializeApp(r) == [r EXCEPT !.pending = r.pending + 1]

\* ... and after it, on the index page: the container is in the document
initializeAppResumed(r) ==
    LET resumed == [r EXCEPT !.pending = r.pending - 1]
        waited == waitForElement(newWait(DefaultAttempts, TRUE))
    IN  IF waited.outcome = "resolved"
        THEN [renderApps(resumed) EXCEPT !.inits = r.inits + 1, !.listeners = r.listeners + 1]
        ELSE resumed

\* the script's top-level statements
runScript(r, a) ==
    LET ran == [r EXCEPT !.executed = TRUE]
    IN  CASE a.script = "math" ->
               LET listening == [ran EXCEPT !.registered = {"DOMContentLoaded"}]
               IN  IF readyState(r.phase) \in {"interactive", "complete"}
                   THEN MathGameInit(listening) ELSE listening
          [] a.script = "main" ->
               LET listening == [ran EXCEPT !.registered = {"DOMContentLoaded", "load"}]
               IN  IF isDOMReady(r.phase) THEN initializeApp(listening) ELSE listening
          [] a.script = "detail" ->
               [ran EXCEPT !.registered = {"DOMContentLoaded", "load"}]

\* the listener the script registered for the event
dispatch(r, a, event) ==
    IF event \notin r.registered THEN r
    ELSE CASE a.script = "math" -> MathGameInit(r)
           [] a.script = "main" /\ event = "DOMContentLoaded" -> initializeApp(r)
           [] a.script = "main" /\ event = "load" ->
                IF r.container = "empty" THEN renderApps(r) ELSE r
           [] a.script = "detail" /\ event = "DOMContentLoaded" ->
                [r EXCEPT !.detail = initializeDetailPage(r.detail, a.url, a.windowApps)]
           [] a.script = "detail" /\ event = "load" ->
                IF r.detail.hasContainer /\ r.detail.container = "empty"
                THEN [r EXCEPT !.detail = initializeDetailPage(r.detail, a.url, a.windowApps)]
                ELSE r

LoadAt == page = "site" /\ call.kind = "load"

\* the browser executes the script
LoadRunScript ==
    /\ LoadAt
    /\ ~call.ret.executed
    /\ call.ret.phase = call.arg.at
    /\ SiteDid(runScript(call.ret, call.arg))

\* the document moves on: parsed, DOMContentLoaded dispatched, load dispatched
LoadAdvance ==
    /\ LoadAt
    /\ call.ret.phase < 4
    /\ call.ret.phase = call.arg.at => call.ret.executed
    /\ LET moved == [call.ret EXCEPT !.phase = call.ret.phase + 1]
       IN  SiteDid(CASE moved.phase = 3 -> dispatch(moved, call.arg, "DOMContentLoaded")
                     [] moved.phase = 4 -> dispatch(moved, call.arg, "load")
                     [] OTHER -> moved)

\* a fetch of data/apps.json settles and the initialiser awaiting it resumes
LoadFetchSettles ==
    /\ LoadAt
    /\ \/ /\ call.arg.script = "main"
          /\ call.ret.pending > 0
          /\ SiteDid(initializeAppResumed(call.ret))
       \/ /\ call.arg.script = "detail"
          /\ call.ret.detail.pending > 0
          /\ SiteDid([call.ret EXCEPT
                        !.detail = fetchSettled(call.ret.detail, call.arg.url, call.arg.fetch)])

\* the user presses Enter in the answer field, or submits the search form:
\* every registered listener handles it
LoadSubmit ==
    /\ LoadAt
    /\ call.ret.listeners > 0
    /\ call.ret.handled = 0
    /\ SiteDid([call.ret EXCEPT !.handled = call.ret.listeners])

LoadRuns ==
    {[fn |-> "load", kind |-> "load",
      arg |-> [script |-> sc, at |-> at, url |-> [id |-> Param("addition")], windowApps |-> w,
               fetch |-> f],
      ret |-> newLoad(TRUE)] :
        sc \in {"math", "main", "detail"}, at \in Phases,
        w \in {[defined |-> FALSE, apps |-> <<>>],
               [defined |-> TRUE, apps |-> <<App("addition")>>]},
        f \in {[result |-> "ok", apps |-> <<App("addition")>>],
               [result |-> "rejected", apps |-> <<>>]}}

InitSite ==
    /\ page = "site"
    /\ NoEngine
    /\ call \in WaitRuns \cup DetailRuns \cup LoadRuns

NextSite ==
    \/ WFECall
    \/ WFETimer
    \/ WFEDom
    \/ DetailCall
    \/ DetailFetchSettles
    \/ LoadRunScript
    \/ LoadAdvance
    \/ LoadFetchSettles
    \/ LoadSubmit

\* a called function runs, a scheduled timer fires and a fetch settles
SpecSite ==
    /\ InitSite
    /\ [][NextSite]_vars
    /\ WF_vars(WFECall)
    /\ WF_vars(WFETimer)
    /\ WF_vars(DetailCall)
    /\ WF_vars(DetailFetchSettles)

----------------------------------------------------------------------------
(* Properties *)

\* what a check() step did, read off the text v it found in the answer field
QCAccepted == checkBranch(els.input, config.allowNegative) = "compare"
QCRejected == ~QCAccepted
QCMatches == QCAccepted /\ checkAns(els.input) = state.q.answer
QCDiffers == QCAccepted /\ checkAns(els.input) # state.q.answer

MGValidation == validateInput(elements.answer)
MGOpen == ~gameState.isAnswered
MGMatches ==
    MGOpen /\ MGValidation.isValid /\ MGValidation.value.n = gameState.currentProblem.answer
MGDiffers ==
    MGOpen /\ MGValidation.isValid /\ MGValidation.value.n # gameState.currentProblem.answer
MGRejected == MGOpen /\ ~MGValidation.isValid

\* C1: a submission that passes validation and equals the expected answer
\* increases correct, streak and total by exactly 1 and leaves the current
\* problem unchanged (QuizCore.check, and MathGame.checkAnswer while the
\* problem is unanswered).
C1_CorrectAnswerCounts ==
    [][ /\ (QCCheck /\ QCMatches) =>
              /\ state'.correct = state.correct + 1
              /\ state'.streak = state.streak + 1
              /\ state'.total = state.total + 1
              /\ state'.q = state.q
        /\ (MGCheckAnswer /\ MGMatches) =>
              /\ gameState'.correctCount = gameState.correctCount + 1
              /\ gameState'.streakCount = gameState.streakCount + 1
              /\ gameState'.totalCount = gameState.totalCount + 1
              /\ gameState'.currentProblem = gameState.currentProblem ]_vars

\* the second correct answer in a row has been counted
C1_Witness ==
    /\ page = "quiz"
    /\ state.correct = 2 /\ state.streak = 2 /\ state.total = 2
    /\ els.feedback.className = "feedback ok"

\* C2: a submission that passes validation but differs from the expected answer
\* increases total by exactly 1, sets streak to 0, leaves correct and dailyDone
\* unchanged and keeps the same current problem.
C2_WrongAnswerCounts ==
    [][ /\ (QCCheck /\ QCDiffers) =>
              /\ state'.total = state.total + 1
              /\ state'.streak = 0
              /\ state'.correct = state.correct
              /\ state'.dailyDone = state.dailyDone
              /\ state'.q = state.q
        /\ (MGCheckAnswer /\ MGDiffers) =>
              /\ gameState'.totalCount = gameState.totalCount + 1
              /\ gameState'.streakCount = 0
              /\ gameState'.correctCount = gameState.correctCount
              /\ gameState'.currentProblem = gameState.currentProblem ]_vars

\* a wrong answer after a correct one: the streak is gone, the correct count stays
C2_Witness ==
    /\ page = "quiz"
    /\ state.correct = 1 /\ state.total = 2 /\ state.streak = 0
    /\ els.feedback = setFeedback(MsgWrong(state.q.answer), FALSE)

\* C3: a submission rejected by validation leaves correct, total, dailyDone, the
\* current problem and the persisted daily record unchanged; for empty input
\* the feedback message is exactly the fixed "enter a number" string.
C3_RejectedChangesNothing ==
    [][ /\ (QCCheck /\ QCRejected) =>
              /\ state'.correct = state.correct
              /\ state'.total = state.total
              /\ state'.dailyDone = state.dailyDone
              /\ state'.q = state.q
              /\ localStorage'.daily = localStorage.daily
              /\ (normalizeDigits(els.input) = <<>> => els'.feedback.text = MsgEnterNumber)
        /\ (MGCheckAnswer /\ MGRejected) =>
              /\ gameState' = gameState
              /\ (elements.answer = <<>> => elements'.feedback.text = MsgValidation) ]_vars

\* in daily mode, after a counted answer, a text that is empty once normalized
\* was rejected
C3_Witness ==
    /\ page = "quiz"
    /\ state.mode = "daily" /\ state.total = 1 /\ state.dailyDone = 1
    /\ els.input = <<97>>
    /\ els.feedback = setFeedback(MsgEnterNumber, FALSE)

\* C4: after every check() that does not count as correct (a wrong answer, or
\* a submission rejected for empty input, unparseable input or a disallowed
\* negative value) the streak is 0.
C4_StreakResetOnInvalid ==
    [][ (QCCheck /\ ~QCMatches) => state'.streak = 0 ]_vars

\* C5: check() takes the first branch that applies, in the order empty,
\* unparseable, disallowed negative, comparison: an empty or unparseable text
\* (a lone "-") gets the "enter a number" message, a negative value with
\* allowNegative false gets the non-negative message and is not compared with
\* the answer, and every other text is compared and counted.
C5_ValidationOrder ==
    [][ QCCheck =>
          LET raw == normalizeDigits(els.input)
              ans == parseInt(raw)
          IN  IF raw = <<>> \/ ans.nan
              THEN /\ els'.feedback = setFeedback(MsgEnterNumber, FALSE)
                   /\ state' = state
              ELSE IF ~config.allowNegative /\ ans.n < 0
              THEN /\ els'.feedback = setFeedback(MsgNonNegative, FALSE)
                   /\ state' = state
              ELSE /\ state'.total = state.total + 1
                   /\ els'.feedback.text \notin {MsgEnterNumber, MsgNonNegative}
                   /\ (state'.correct = state.correct + 1) <=> (ans.n = state.q.answer) ]_vars

\* the expected answer is -2, "-2" was submitted with allowNegative false: it
\* got the non-negative message and was not counted
C5_Witness ==
    /\ page = "quiz"
    /\ ~config.allowNegative
    /\ state.q.answer = 0 - 2
    /\ els.input = <<45, 50>>
    /\ els.feedback = setFeedback(MsgNonNegative, FALSE)
    /\ state.total = 0

\* the record in storage, as the claims read it
RecordOf(dateKey, done) == JsonObject(JStr(dateKey), JNum(done))
StoredToday == localStorage.daily.kind = "object" /\ localStorage.daily.date = JStr(todayKey(clock))
StoredStale == localStorage.daily.kind = "object" /\ localStorage.daily.date # JStr(todayKey(clock))

\* a step that runs loadDaily: startDaily, or create on a page load
QCLoadStep == QCStartDaily \/ QCReload

\* C6: in every reachable QuizCore state dailyDone is a non-negative integer
\* not greater than dailyGoal, also right after create or startDaily loaded a
\* record dated today with any stored done value.
C6_DailyDoneInRange ==
    page = "quiz" => state.dailyDone \in 0..state.dailyGoal

\* C7: a correct answer in daily mode with dailyDone < dailyGoal increases
\* dailyDone by exactly 1 and leaves the persisted record equal to
\* {date: today, done: dailyDone}; a correct answer in practice mode, or in
\* daily mode with dailyDone already at dailyGoal, changes neither dailyDone
\* nor the persisted record.
C7_DailyProgressSaved ==
    [][ (QCCheck /\ QCMatches) =>
          /\ (state.mode = "daily" /\ state.dailyDone < state.dailyGoal) =>
                /\ state'.dailyDone = state.dailyDone + 1
                /\ localStorage'.daily = RecordOf(todayKey(clock), state'.dailyDone)
          /\ (state.mode = "practice" \/ state.dailyDone = state.dailyGoal) =>
                /\ state'.dailyDone = state.dailyDone
                /\ localStorage'.daily = localStorage.daily ]_vars

\* a daily answer after midnight was counted on top of the count loaded the
\* day before, and saved under the new date
C7_Witness ==
    /\ state.mode = "daily" /\ state.total = 1 /\ state.correct = 1
    /\ state.dailyDone = 2
    /\ clock = 2
    /\ localStorage.daily = RecordOf(todayKey(2), 2)

\* C8: the goal-reached variant of the success message is selected exactly
\* when the answer is correct, the mode is daily and dailyDone equals dailyGoal
\* after the update (so that from dailyDone = 0 the first dailyGoal - 1 correct
\* answers get the plain message and the next one the goal-reached message).
C8_GoalMessageExactlyAtGoal ==
    [][ QCCheck =>
          ( (els'.feedback.text = MsgGoalReached) <=>
            (QCMatches /\ state'.mode = "daily" /\ state'.dailyDone = state'.dailyGoal) ) ]_vars

\* C9: when the persisted record's date differs from the current local date,
\* loadDaily sets dailyDone to 0 whatever the stored done value is, and loading
\* does not delete or rewrite the stored record; the stored record changes only
\* in a step that runs saveDaily.
C9_Rollover ==
    [][ /\ (StoredStale /\ QCLoadStep) =>
              /\ state'.dailyDone = 0
              /\ localStorage'.daily = localStorage.daily
        /\ (localStorage'.daily # localStorage.daily) =>
              /\ QCCheck /\ QCMatches
              /\ localStorage'.daily = RecordOf(todayKey(clock), state'.dailyDone) ]_vars

\* startDaily found yesterday's record with a positive done and started at 0,
\* the record still in storage
C9_Witness ==
    /\ state.mode = "daily" /\ state.dailyDone = 0
    /\ clock = 1
    /\ localStorage.daily = RecordOf(todayKey(0), MaxGoal)

\* C10: loadDaily is idempotent: a load leaves storage untouched, and a second
\* load right after it (no saveDaily, no date change) assigns the dailyDone the
\* first one assigned.
C10_LoadIdempotent ==
    [][ QCLoadStep =>
          /\ localStorage' = localStorage
          /\ loadDaily(localStorage', clock') = state'.dailyDone
          /\ (state.dailyDone = loadDaily(localStorage, clock)
                => state'.dailyDone = state.dailyDone) ]_vars

\* startDaily loaded today's record with a positive done
C10_Witness ==
    /\ state.mode = "daily" /\ state.total = 0
    /\ state.dailyDone = 1
    /\ localStorage.daily = RecordOf(todayKey(clock), 1)
    /\ els.nextBtn = "none"

\* what the app itself left in storage (SpecSound starts from empty storage)
SavedDoneToday == IF StoredToday THEN localStorage.daily.done.n ELSE 0
SavedSound == IF localStorage.sound = NoItem THEN TRUE ELSE localStorage.sound = SoundItem(49)

\* C11: session state does not survive a reload except through the persisted
\* subset: create on a page load starts with correct = total = streak = 0 and
\* mode = practice, dailyDone equal to the done value last saved for today's
\* date (0 if none) and soundOn equal to the last saved sound preference; the
\* saved values are the ones the last toggle / the last counted daily answer
\* wrote.
C11_ReloadKeepsOnlyPersisted ==
    [][ /\ QCReload =>
              /\ state'.correct = 0 /\ state'.total = 0 /\ state'.streak = 0
              /\ state'.mode = "practice"
              /\ state'.dailyDone = SavedDoneToday
              /\ state'.soundOn = SavedSound
              /\ localStorage' = localStorage
        /\ (localStorage'.sound # localStorage.sound) =>
              localStorage'.sound = SoundItem(IF state'.soundOn THEN 49 ELSE 48)
        /\ (state'.soundOn # state.soundOn /\ ~QCReload) =>
              localStorage'.sound # localStorage.sound
        /\ (localStorage'.daily # localStorage.daily) =>
              localStorage'.daily = RecordOf(todayKey(clock), state'.dailyDone) ]_vars

\* a page load after the sound was switched off and one daily answer was
\* counted today: counters at 0, practice mode, dailyDone and soundOn restored
C11_Witness ==
    /\ page = "quiz"
    /\ state.mode = "practice" /\ state.total = 0 /\ state.correct = 0 /\ state.streak = 0
    /\ state.dailyDone = 1
    /\ ~state.soundOn
    /\ localStorage.sound = SoundItem(48)
    /\ localStorage.daily = RecordOf(todayKey(clock), 1)

\* C12: a failing storage read never propagates an error: when getItem throws
\* (storage unavailable) or the daily record is malformed JSON, a page load
\* ends with dailyDone = 0, when getItem throws also with soundOn = true, and
\* QuizCore.create completes and returns the API.
C12_FailingReadGivesDefaults ==
    [][ QCReload =>
          /\ api' = "returned"
          /\ (getItemThrows(localStorage) \/ localStorage.daily = Garbage) =>
                state'.dailyDone = 0
          /\ getItemThrows(localStorage) => state'.soundOn ]_vars

\* C13: loadSound sets soundOn = false only when the stored value is exactly
\* "0"; a missing key and any stored string other than "0" and "1" give
\* soundOn = true.
C13_SoundDefaultsToEnabled ==
    [][ (QCReload /\ ~getItemThrows(localStorage)) =>
          (~state'.soundOn <=> localStorage.sound = SoundItem(48)) ]_vars

\* C14: a failing storage write is swallowed: when setItem throws, a correct
\* daily-mode check() still completes with correct, streak, total and the
\* in-memory dailyDone updated, the success feedback shown and the next button
\* visible, as when the write succeeds; the sound button still toggles soundOn;
\* storage keeps what it held.
C14_FailingWriteSwallowed ==
    [][ /\ (setItemThrows(localStorage) /\ state.mode = "daily" /\ QCMatches /\ QCCheck) =>
              /\ state'.correct = state.correct + 1
              /\ state'.streak = state.streak + 1
              /\ state'.total = state.total + 1
              /\ state'.dailyDone = IF state.dailyDone < state.dailyGoal
                                    THEN state.dailyDone + 1 ELSE state.dailyDone
              /\ els'.feedback =
                    setFeedback(IF state'.dailyDone >= state.dailyGoal
                                THEN MsgGoalReached ELSE MsgCorrect, TRUE)
              /\ els'.nextBtn = "inline-flex"
              /\ localStorage' = localStorage
              /\ api' = api
        /\ (setItemThrows(localStorage) /\ QCToggleSound) =>
              /\ state'.soundOn = ~state.soundOn
              /\ localStorage' = localStorage ]_vars

\* storage is full: a daily answer was counted and acknowledged, the record was
\* not written, the sound is off and its flag was not written either
C14_Witness ==
    /\ page = "quiz"
    /\ localStorage = [NoStorage EXCEPT !.access = "full"]
    /\ state.mode = "daily" /\ state.dailyDone = 1 /\ state.correct = 1
    /\ ~state.soundOn
    /\ els.feedback.className = "feedback ok"
    /\ els.nextBtn = "inline-flex"

\* the claims' reading of a text: its digits, ASCII or full-width, and the
\* decimal number they form, read from the left
IsDigitChar(c) == c \in 48..57 \/ c \in 65296..65305
DigitValue(c) == IF c \in 48..57 THEN c - 48 ELSE c - 65296
DigitPositions(str) == {i \in 1..Len(str) : IsDigitChar(str[i])}
RECURSIVE DecimalFrom(_, _, _)
DecimalFrom(str, i, acc) ==
    IF i > Len(str) THEN acc
    ELSE IF IsDigitChar(str[i]) THEN DecimalFrom(str, i + 1, 10 * acc + DigitValue(str[i]))
    ELSE DecimalFrom(str, i + 1, acc)
DecimalOfDigits(str) == DecimalFrom(str, 1, 0)

\* every full-width digit replaced by the ASCII digit 0xFEE0 below it, then
\* every character other than ASCII digits and '-' deleted, order kept
RECURSIVE Normalized(_)
Normalized(str) ==
    IF str = <<>> THEN <<>>
    ELSE LET c == str[Len(str)]
             d == IF c \in 65296..65305 THEN c - 65248 ELSE c
             rest == Normalized(SubSeq(str, 1, Len(str) - 1))
         IN  IF d \in 48..57 \/ d = 45 THEN Append(rest, d) ELSE rest

\* C15: for every input string, normalizeDigits returns the string obtained by
\* replacing each full-width digit (U+FF10..U+FF19) with the ASCII digit 0xFEE0
\* code points below it and then deleting every character other than ASCII
\* digits and '-', preserving the order of the kept characters; the result may
\* be empty.
C15_NormalizeDigits ==
    (call.fn = "normalizeDigits" /\ call.arg.t = "string")
        => call.ret = Normalized(call.arg.s)

\* full-width 9, a letter and a minus sign give "9-"
C15_Witness ==
    /\ call.fn = "normalizeDigits"
    /\ call.arg = JStr(<<65305, 97, 45>>)
    /\ call.ret = <<57, 45>>

\* C16: answer parsing (normalize, then base-10 parse) yields 'invalid' for the
\* empty string, for any string with no digit and for a lone negative sign; for
\* a string whose digits form one run surrounded by non-digit, non-minus text
\* it yields that run's decimal value, leading zeros read as decimal; every
\* input has a result (a number or 'invalid').
C16_AnswerParsing ==
    call.fn = "parseAnswer" =>
        LET str == call.arg.s
            ds == DigitPositions(str)
            oneRun == /\ ds # {}
                      /\ \A i, j \in ds : \A k \in i..j : k \in ds
                      /\ \A i \in 1..Len(str) : str[i] # 45
        IN  /\ call.ret \in [nan : BOOLEAN, n : Int]
            /\ ds = {} => call.ret.nan
            /\ str = <<45>> => call.ret.nan
            /\ oneRun => (~call.ret.nan /\ call.ret.n = DecimalOfDigits(str))

\* a digit between two letters is read as its value
C16_Witness ==
    /\ call.fn = "parseAnswer"
    /\ call.arg = JStr(<<97, 55, 97>>)
    /\ call.ret = Num(7)

\* C17: InputValidator.validateInput returns {isValid: false, value: null,
\* error: the "enter a number" message} exactly when the input is empty, null,
\* undefined or contains no ASCII or full-width digit; otherwise it returns
\* isValid true with value equal to the decimal number formed by all digits of
\* the input in order, every other character being ignored.
C17_ValidateInput ==
    call.fn = "validateInput" =>
        LET x == call.arg
            hasDigit == x.t = "string" /\ DigitPositions(x.s) # {}
        IN  IF hasDigit
            THEN /\ call.ret.isValid
                 /\ call.ret.value = JNum(DecimalOfDigits(x.s))
            ELSE call.ret = [isValid |-> FALSE, value |-> JNull,
                             error |-> JStr(MsgValidation)]

\* "7-0": the minus sign between the digits is ignored, the value is 70
C17_Witness ==
    /\ call.fn = "validateInput"
    /\ call.arg = JStr(<<55, 45, 48>>)
    /\ call.ret = [isValid |-> TRUE, value |-> JNum(70), error |-> JNull]

\* the tiers as the claims state them
TierMin(d) == 1
TierMax(d) == CASE d = "easy" -> 10 [] d = "medium" -> 20 [] d = "hard" -> 50

\* C18: for each difficulty tier (easy [1,10], medium [1,20], hard [1,50]) and
\* every value of the random source, the problem generateProblem stores as
\* gameState.currentProblem has operands num1, num2 with min <= operand <= max
\* and answer = num1 + num2.
C18_ProblemInRange ==
    page = "math" =>
        LET p == gameState.currentProblem
            d == gameState.difficulty
        IN  /\ d \in {"easy", "medium", "hard"}
            /\ p.num1 \in TierMin(d)..TierMax(d)
            /\ p.num2 \in TierMin(d)..TierMax(d)
            /\ p.answer = p.num1 + p.num2

\* the hard tier with the largest and the smallest random value: 50 + 1
C18_Witness ==
    /\ page = "math"
    /\ gameState.difficulty = "hard"
    /\ gameState.currentProblem = [num1 |-> 50, num2 |-> 1, answer |-> 51]

\* C19: problem generation with a difficulty key that is absent from the
\* configuration (or whose item set is empty) is signaled to the caller: the
\* arithmetic generator throws, the shape generator returns null, and the
\* stored current problem / current shape, correct answer and choices are
\* left unchanged.
C19_UnknownTierSignaled ==
    /\ (call.fn = "ProblemGenerator.generateProblem"
            /\ call.arg.difficulty \notin {"easy", "medium", "hard"}) =>
          /\ call.ret.threw
          /\ call.ret.gameState.currentProblem = call.arg.currentProblem
    /\ (call.fn = "ShapeGenerator.generateProblem"
            /\ (\/ call.arg.difficulty \notin DOMAIN call.arg.SHAPES
                \/ call.arg.SHAPES[call.arg.difficulty] = <<>>)) =>
          /\ call.ret.returned.null
          /\ call.ret.gameState.currentShape = call.arg.currentShape
          /\ call.ret.gameState.correctAnswer = call.arg.correctAnswer
          /\ call.ret.gameState.currentChoices = call.arg.currentChoices

\* the shape generator was called with an absent key while a problem was
\* stored: null, and the stored problem is still there
C19_Witness ==
    /\ call.fn = "ShapeGenerator.generateProblem"
    /\ call.arg.difficulty = "unknown"
    /\ call.arg.currentShape = AllShapes[2]
    /\ call.ret.returned.null
    /\ call.ret.gameState.currentChoices = <<AllShapes[1], AllShapes[2]>>

\* C20: for a shape tier with n >= 1 items (pairwise distinct names) and every
\* outcome of the random source, ShapeGenerator.generateProblem returns a choice
\* list of exactly min(4, n) pairwise distinct items of that tier which
\* contains the correct shape exactly once, and gameState.correctAnswer is that
\* shape's name.
C20_ShapeChoices ==
    (call.fn = "ShapeGenerator.generateProblem"
        /\ call.arg.difficulty \in DOMAIN call.arg.SHAPES
        /\ call.arg.SHAPES[call.arg.difficulty] # <<>>) =>
      LET tier == call.arg.SHAPES[call.arg.difficulty]
          n == Len(tier)
          items == {tier[i] : i \in 1..n}
          out == call.ret.returned
          ch == out.choices
      IN  /\ ~out.null
          /\ Len(ch) = IF n < 4 THEN n ELSE 4
          /\ \A i, j \in 1..Len(ch) : i # j => ch[i] # ch[j] /\ ch[i].name # ch[j].name
          /\ \A i \in 1..Len(ch) : ch[i] \in items
          /\ Cardinality({i \in 1..Len(ch) : ch[i] = out.shape}) = 1
          /\ out.shape \in items
          /\ call.ret.gameState.currentShape = out.shape
          /\ call.ret.gameState.currentChoices = ch
          /\ call.ret.gameState.correctAnswer = out.shape.name

\* a tier of 3 items: all 3 are offered, the correct one last
C20_Witness ==
    /\ call.fn = "ShapeGenerator.generateProblem"
    /\ Len(call.arg.SHAPES[call.arg.difficulty]) = 3
    /\ Len(call.ret.returned.choices) = 3
    /\ call.ret.returned.choices[3] = call.ret.returned.shape
    /\ call.ret.gameState.correctAnswer = "sankaku"

\* C21: after every incorrect (validated, non-matching) submission a
\* clear-input callback is scheduled; when it fires the answer field is empty,
\* and it does fire (or the page is left), so that the field is eventually
\* empty; the current problem changes only when a new problem is requested or
\* the page is loaded again.
C21_RetryClear ==
    /\ [][ /\ (QCDiffers /\ QCCheck) => timers' = timers + 1
           /\ (MGDiffers /\ MGCheckAnswer) => timers' = timers + 1
           /\ QCRetryClear => (els'.input = <<>> /\ state'.q = state.q)
           /\ MGRetryClear =>
                 /\ elements'.answer = <<>>
                 /\ gameState'.currentProblem = gameState.currentProblem
           /\ (state'.q # state.q) => (QCNewQuestion \/ QCReload)
           /\ (gameState'.currentProblem # gameState.currentProblem) =>
                 MGGenerateNewProblem ]_vars
    /\ (timers > 0) ~> (IF page = "quiz" THEN els.input = <<>> ELSE elements.answer = <<>>)

\* the callback of a wrong answer has fired: the answer field is empty, the
\* problem and its feedback are still the ones of the wrong answer
C21_Witness ==
    /\ page = "quiz"
    /\ timers = 0
    /\ state.total = 1 /\ state.correct = 0
    /\ els.input = <<>>
    /\ els.problem = state.q.text
    /\ els.feedback = setFeedback(MsgWrong(state.q.answer), FALSE)

\* C23: a retry-clear callback that fires after a new problem was requested
\* (the feedback of the wrong answer is gone while the callback is pending)
\* leaves the session state unchanged and erases no answer text entered for
\* the new problem.
C23_PendingClearHarmless ==
    [][ /\ (QCRetryClear /\ els.feedback.text = MsgNone) =>
              (state' = state /\ els'.input = els.input)
        /\ (MGRetryClear /\ elements.feedback.text = MsgNone) =>
              (gameState' = gameState /\ elements'.answer = elements.answer) ]_vars

QCScores(st) == <<st.correct, st.total, st.streak>>
MGScores(gs) == <<gs.correctCount, gs.totalCount, gs.streakCount>>
\* a step of one of the problem requests (the page is tested first)
QCRequest == page = "quiz" /\ (QCNewQuestion \/ QCStartDaily \/ QCStartPractice)
MGRequest ==
    /\ page = "math"
    /\ gameState'.isAnswered = FALSE /\ timers' = timers
    /\ (MGGenerateNewProblem \/ MGSetDifficulty)
generatedProblems[d \in Levels] ==
    {generateProblem(d, k1, k2) : k1 \in Randoms, k2 \in Randoms}

\* C24: requesting a problem never changes the scores: QuizCore newQuestion,
\* startDaily and startPractice, and MathGame generateNewProblem and
\* setDifficulty, show a freshly built problem with an empty answer field and
\* leave the correct, total and streak counters unchanged.  (Stated step by
\* step: a step that changes a score is no request, and a step that does not
\* end with a freshly built problem on display is no request.)
C24_RequestKeepsScores ==
    [][ /\ (QCScores(state') # QCScores(state)) => ~QCRequest
        /\ (MGScores(gameState') # MGScores(gameState)) => ~MGRequest
        /\ \/ state'.q \in Questions /\ els' = newQuestionEls(state'.q)
           \/ ~QCRequest
        /\ \/ /\ gameState'.currentProblem \in generatedProblems[gameState'.difficulty]
              /\ elements' = clearInputAndFeedback(elements)
              /\ ~gameState'.isAnswered
           \/ ~MGRequest ]_vars

\* a new question is on display while the scores of earlier answers stand
C24_Witness ==
    /\ page = "quiz"
    /\ state.correct = 1 /\ state.total = 2 /\ state.streak = 1
    /\ els = newQuestionEls(state.q)

\* C30: in QuizCore a submission is processed only while the problem is
\* unanswered: once the current problem has been answered correctly (the next
\* button is on display until the next question is built), further check()
\* calls change none of correct, total, streak, dailyDone or the persisted
\* record.
C30_AnsweredProblemIsClosed ==
    [][ (page = "quiz" /\ els.nextBtn = "inline-flex" /\ QCCheck) =>
            /\ QCScores(state') = QCScores(state)
            /\ state'.dailyDone = state.dailyDone
            /\ localStorage' = localStorage ]_vars

\* C29: for any range {min, max} with max >= 1 each generated operand is
\* floor(r * max) + min for a random r in [0, 1) and lies in
\* min .. min + max - 1; for every range, an inverted one (min > max)
\* included, generateProblem returns a problem whose answer is num1 + num2
\* and signals no error.
C29_OperandsOfAnyRange ==
    call.fn = "generateProblem(range)" =>
        LET range == call.arg
            p == call.ret.problem
        IN  /\ ~call.ret.threw
            /\ p.answer = p.num1 + p.num2
            /\ \E k1 \in Randoms, k2 \in Randoms :
                  /\ p.num1 = ((k1.num * range.max) \div k1.den) + range.min
                  /\ p.num2 = ((k2.num * range.max) \div k2.den) + range.min
            /\ range.max >= 1 =>
                  /\ p.num1 \in range.min .. (range.min + range.max - 1)
                  /\ p.num2 \in range.min .. (range.min + range.max - 1)

\* the inverted range {min: 10, max: 5} of the unit test, with the largest and
\* the smallest random value: the problem 14 + 10
C29_Witness ==
    /\ call.fn = "generateProblem(range)"
    /\ call.arg = [min |-> 10, max |-> 5]
    /\ call.ret.problem = [num1 |-> 14, num2 |-> 10, answer |-> 24]

\* C27: QuizCore.create invokes the onInitUI hook exactly once when it is a
\* function and never otherwise, with the live state (what the hook writes to
\* it is in the state create leaves) and the api object, after the sound
\* preference and the daily record were loaded and before the first question
\* is built; buildQuestion is called exactly once during create.
C27_HookOnceBeforeFirstQuestion ==
    call.kind = "create" =>
        LET hook == call.arg.onInitUI
            isFn == hook \in {"reads", "setsDailyMode"}
            trace == call.ret.trace
            seen == call.ret.seen
        IN  /\ Len(seen) <= 1
            /\ ~isFn => seen = <<>>
            /\ seen # <<>> =>
                  /\ SubSeq(trace, 1, 3) = <<"loadSound", "loadDaily", "onInitUI">>
                  /\ seen[1].api = "api"
                  /\ seen[1].state.soundOn = loadSound(localStorage)
                  /\ seen[1].state.dailyDone = loadDaily(localStorage, clock)
                  /\ seen[1].state.q = [text |-> <<>>, answer |-> 0]
            /\ api = "returned" =>
                  /\ trace = IF isFn
                             THEN <<"loadSound", "loadDaily", "onInitUI", "buildQuestion">>
                             ELSE <<"loadSound", "loadDaily", "buildQuestion">>
                  /\ isFn => Len(seen) = 1
                  /\ hook = "setsDailyMode" => state.mode = "daily"
                  /\ state.q \in Questions

\* create has returned after a hook that set the mode; the stored sound
\* preference "0" and the record of today were loaded before the hook ran
C27_Witness ==
    /\ call.kind = "create"
    /\ api = "returned"
    /\ call.arg.onInitUI = "setsDailyMode"
    /\ state.mode = "daily"
    /\ ~state.soundOn
    /\ call.ret.seen # <<>>
    /\ ~call.ret.seen[1].state.soundOn
    /\ call.ret.seen[1].state.mode = "practice"

\* C26: after a correct answer the next-problem action shows a problem
\* different from the one just solved, with the answer field empty, the
\* feedback text empty and the next button removed.
C26_NextProblemDiffers ==
    [][ (page = "math" /\ gameState.isAnswered /\ MGGenerateNewProblem) =>
            /\ gameState'.currentProblem # gameState.currentProblem
            /\ elements'.answer = <<>>
            /\ elements'.feedback.text = MsgNone
            /\ elements'.nextBtn = FALSE ]_vars

\* C28: daily records are namespaced by app id and the sound preference is
\* global: no action on the page of one app changes the daily record stored
\* for another app; the page of an app opened later loads the dailyDone of
\* its own record and the sound preference the page before it saved; opening
\* a page changes no stored item.
C28_DailyPerAppSoundGlobal ==
    [][ LET before == allItems(localStorage, config.appId)
            after == allItems(localStorage', config'.appId)
        IN  /\ DOMAIN after = DOMAIN before
            /\ \A b \in AppIds \ {config.appId} :
                  after[DAILY_KEY(b)] = before[DAILY_KEY(b)]
            /\ config'.appId # config.appId =>
                  /\ after = before
                  /\ state'.dailyDone =
                        loadDaily([localStorage EXCEPT !.daily = before[DAILY_KEY(config'.appId)]],
                                  clock)
                  /\ (localStorage.sound = SoundItem(IF state.soundOn THEN 49 ELSE 48)) =>
                        state'.soundOn = state.soundOn ]_vars

\* the page of app "b" right after it was opened: it loaded its own record
\* (done 1) although app "a" has no record, and the preference "0" saved on
\* the page of app "a" before
C28_Witness ==
    /\ page = "quiz"
    /\ config.appId = <<98>>
    /\ state.total = 0
    /\ state.dailyDone = 1
    /\ ~state.soundOn
    /\ localStorage.sound = SoundItem(48)
    /\ localStorage.others[DAILY_KEY(<<97>>)] = NoItem

----------------------------------------------------------------------------
(* Delayed callbacks *)

\* what the shape game scores and asks
ShapeLogic(sg) ==
    <<sg.screen, sg.difficulty, sg.currentShape, sg.currentChoices, sg.correctAnswer,
      sg.correctCount, sg.totalCount, sg.streakCount, sg.isAnswered>>

\* what the page of the shape game shows
ShapeUI(sg) ==
    <<sg.shapeDisplay, sg.buttons, sg.feedback, sg.nextBtnHidden, sg.encouragement,
      sg.stars, sg.confetti>>

IdempotentKinds ==
    {"highlight", "hideFeedback", "showEncouragement", "hideEncouragement",
     "removeStar", "removeConfetti"}

\* C22: a delayed callback changes elements of the page only - never a
\* counter, the mode, dailyDone, the current problem, isAnswered or the storage -
\* and running it a second time right away leaves the page as the first run did
C22_CallbacksTouchUIOnly ==
    [][ /\ QCRetryClear =>
            /\ state' = state
            /\ config' = config
            /\ localStorage' = localStorage
            /\ retryClear(els') = els'
        /\ MGRetryClear =>
            /\ gameState' = gameState
            /\ [elements' EXCEPT !.answer = <<>>] = elements'
        /\ MGCleanupStar =>
            /\ gameState' = gameState
            /\ \A star \in elements.stars \ elements'.stars :
                scheduleCleanup(elements'.stars, star) = elements'.stars
        /\ MGCleanupConfetti =>
            /\ gameState' = gameState
            /\ \A piece \in elements.confetti \ elements'.confetti :
                scheduleCleanup(elements'.confetti, piece) = elements'.confetti
        /\ page = "shape" =>
            \A timer \in shapeGame.pending :
                LET once == callback([shapeGame EXCEPT !.pending = @ \ {timer}], timer)
                IN  shapeGame' = once =>
                    /\ ShapeLogic(once) = ShapeLogic(shapeGame)
                    /\ localStorage' = localStorage
                    /\ timer.kind \in IdempotentKinds =>
                        ShapeUI(callback(once, timer)) = ShapeUI(once)
      ]_vars

\* a wrong choice whose highlight and feedback-hide callbacks have both run
C22_Witness ==
    /\ page = "shape"
    /\ shapeGame.totalCount = 1
    /\ shapeGame.correctCount = 0
    /\ shapeGame.isAnswered
    /\ shapeGame.pending = {}
    /\ shapeGame.feedback = [text |-> MsgZannen, className |-> "incorrect", display |-> "none"]
    /\ \E i \in DOMAIN shapeGame.buttons :
        /\ shapeGame.buttons[i].name = shapeGame.correctAnswer
        /\ "correct" \in shapeGame.buttons[i].classes

----------------------------------------------------------------------------
(* Audio *)

\* the tone players and the audio of the shape game a run can have
Tones ==
    {tn \in [available : BOOLEAN, audioCtx : BOOLEAN, last : {"none", "ok", "ng"}] :
        /\ tn.audioCtx => tn.available
        /\ tn.last # "none" => tn.audioCtx}
ShapeAudio ==
    [audioEnabled : BOOLEAN, audioContext : BOOLEAN,
     lastSound : {"none", "correct"}]

\* the quiz page with another sound preference, stored preference and player
QuizWithAudio(on, item, tn) ==
    [state |-> [state EXCEPT !.soundOn = on],
     localStorage |-> [localStorage EXCEPT !.sound = item],
     tone |-> tn]

\* the shape game with another audio
ShapeWithAudio(sg, audio) ==
    [sg EXCEPT !.audioEnabled = audio.audioEnabled, !.audioContext = audio.audioContext,
               !.lastSound = audio.lastSound]

\* what scoring is: counters, mode, dailyDone, the stored daily record, the
\* feedback message
QuizScoring(st, e, ls) ==
    <<st.correct, st.total, st.streak, st.mode, st.dailyDone, ls.daily, e.feedback.text>>
ShapeScoring(sg) ==
    <<ShapeLogic(sg), ShapeUI(sg), sg.pending>>

\* check() run on the page as it is
checked == check(config, state, els, localStorage, clock, tone)

\* C25: whatever the sound preference, the stored preference, and whether an
\* audio context exists or can be created, a handler leaves the same counters,
\* mode, dailyDone, stored daily record and feedback message; a submission is
\* counted without audio as with it; the sound buttons change none of these
C25_ScoringIgnoresAudio ==
    /\ [](page = "quiz" =>
            \A on \in BOOLEAN, item \in StoredSound, tn \in Tones :
                LET other == QuizWithAudio(on, item, tn)
                    result == check(config, other.state, els, other.localStorage, clock,
                                    other.tone)
                IN  /\ QuizScoring(result.state, result.els, result.localStorage)
                        = QuizScoring(checked.state, checked.els, checked.localStorage)
                    /\ result.scheduled = checked.scheduled
                    /\ result.els.feedback.text # MsgNone
                    /\ checkBranch(els.input, config.allowNegative) = "compare" =>
                        result.state.total = state.total + 1)
    /\ [](page = "shape" /\ shapeGame.screen = "game" =>
            \A audio \in ShapeAudio :
                LET other == ShapeWithAudio(shapeGame, audio)
                IN  /\ \A i \in DOMAIN shapeGame.buttons, m \in {0, ENCOURAGEMENTSLength - 1} :
                        /\ ShapeScoring(handleChoice(other, i, m))
                            = ShapeScoring(handleChoice(shapeGame, i, m))
                        /\ ~shapeGame.isAnswered =>
                            handleChoice(other, i, m).totalCount = shapeGame.totalCount + 1
                    /\ \A problem \in shapeDraws[shapeGame.difficulty] :
                        ShapeScoring(nextProblem(other, problem))
                        = ShapeScoring(nextProblem(shapeGame, problem))
                    /\ ShapeScoring(toggleAudio(other)) = ShapeScoring(shapeGame))
    /\ [][ /\ QCCheck =>
                /\ state' = checked.state
                /\ els' = checked.els
                /\ localStorage' = checked.localStorage
                /\ tone' = checked.tone
                /\ timers' = timers + checked.scheduled
           /\ (page = "quiz" /\ state'.soundOn # state.soundOn) =>
                QuizScoring(state', els', localStorage') = QuizScoring(state, els, localStorage)
      ]_vars

\* a right answer counted and stored in a browser without Web Audio, with the
\* sound preference on: no audio context, no tone
C25_Witness ==
    /\ page = "quiz"
    /\ state.soundOn
    /\ ~tone.available
    /\ tone = createTonePlayer(FALSE)
    /\ state.mode = "daily"
    /\ state.correct = 1
    /\ state.total = 1
    /\ state.dailyDone = 1
    /\ localStorage.daily # NoItem
    /\ els.feedback.text = MsgGoalReached

----------------------------------------------------------------------------
(* The isAnswered guard *)

\* C31: an answered problem is closed. MathGame: checkAnswer on an answered
\* problem changes nothing; correctCount grows by one, only on an open problem
\* that the step answers; a problem is open again only when a new one was
\* generated. ShapeExplorer: a choice on an answered problem changes nothing,
\* the first choice on a problem counts one and answers it; totalCount changes
\* only so, or to 0 by startGame; a problem is open again only as a new one.
C31_AnsweredOnce ==
    /\ [](page = "shape" /\ shapeGame.screen = "game" =>
            \A i \in DOMAIN shapeGame.buttons, m \in {0, ENCOURAGEMENTSLength - 1} :
                LET chosen == handleChoice(shapeGame, i, m)
                IN  IF shapeGame.isAnswered THEN chosen = shapeGame
                    ELSE /\ chosen.totalCount = shapeGame.totalCount + 1
                         /\ chosen.isAnswered)
    /\ [][ /\ (page = "math" /\ gameState.isAnswered /\ MGCheckAnswer) =>
                /\ gameState' = gameState
                /\ elements' = elements
           /\ (page = "math" /\ gameState'.correctCount # gameState.correctCount) =>
                /\ gameState'.correctCount = gameState.correctCount + 1
                /\ ~gameState.isAnswered
                /\ gameState'.isAnswered
           /\ (page = "math" /\ gameState.isAnswered /\ ~gameState'.isAnswered) =>
                /\ gameState'.currentProblem \in generatedProblems[gameState'.difficulty]
                /\ elements' = clearInputAndFeedback(elements)
                /\ MGScores(gameState') = MGScores(gameState)
           /\ (page = "shape" /\ shapeGame'.totalCount # shapeGame.totalCount) =>
                \/ /\ shapeGame'.totalCount = shapeGame.totalCount + 1
                   /\ ~shapeGame.isAnswered
                   /\ shapeGame'.isAnswered
                \/ /\ shapeGame.screen = "difficulty"
                   /\ shapeGame'.screen = "game"
                   /\ shapeGame'.totalCount = 0
           /\ (page = "shape" /\ shapeGame.isAnswered /\ ~shapeGame'.isAnswered) =>
                /\ \E problem \in shapeDraws[shapeGame'.difficulty] :
                    /\ shapeGame'.currentShape = problem.shape
                    /\ shapeGame'.currentChoices = problem.choices
                /\ \A i \in DOMAIN shapeGame'.buttons : shapeGame'.buttons[i].classes = {}
                /\ shapeGame'.totalCount \in {shapeGame.totalCount, 0}
      ]_vars

\* MathGame after a right answer: the problem is closed, one answer counted
C31_Witness ==
    /\ page = "math"
    /\ gameState.isAnswered
    /\ gameState.correctCount = 1
    /\ gameState.totalCount = 1
    /\ elements.nextBtn
    /\ elements.answer # <<>>

\* C32: in each engine the streak is at most the number of correct answers,
\* which is at most the number of answers, and none is negative
C32_StreakCorrectTotal ==
    /\ page = "quiz" =>
        /\ 0 <= state.streak
        /\ state.streak <= state.correct
        /\ state.correct <= state.total
    /\ page = "math" =>
        /\ 0 <= gameState.streakCount
        /\ gameState.streakCount <= gameState.correctCount
        /\ gameState.correctCount <= gameState.totalCount
    /\ page = "shape" =>
        /\ 0 <= shapeGame.streakCount
        /\ shapeGame.streakCount <= shapeGame.correctCount
        /\ shapeGame.correctCount <= shapeGame.totalCount

\* the shape game started again after a right choice: the counters are back
\* at 0 while the feedback of the game before is still there
C32_Witness ==
    /\ page = "shape"
    /\ shapeGame.screen = "game"
    /\ shapeGame.totalCount = 0
    /\ shapeGame.streakCount = 0
    /\ shapeGame.feedback.text = MsgSeikai

\* C33: in the shape game a choice button carries the mark 'correct' only
\* while the problem on display has been answered
C33_NoRevealBeforeAnswer ==
    (page = "shape" /\ shapeGame.screen = "game") =>
        ((\E i \in DOMAIN shapeGame.buttons : "correct" \in shapeGame.buttons[i].classes)
            => shapeGame.isAnswered)

----------------------------------------------------------------------------
(* Two tabs *)

\* C34: with two tabs of the app open on one date, the stored done count never
\* decreases, and a correct daily answer counted by either page while the
\* stored count is below the goal raises the stored count by one
C34_NoLostUpdate ==
    [][ (page = "quiz" /\ otherTab.open /\ otherTab'.open) =>
            /\ loadDaily(localStorage', clock) >= loadDaily(localStorage, clock)
            /\ (/\ otherTab' = otherTab
                /\ state.mode = "daily"
                /\ state'.correct = state.correct + 1
                /\ loadDaily(localStorage, clock) < state.dailyGoal) =>
                    loadDaily(localStorage', clock) = loadDaily(localStorage, clock) + 1
      ]_vars

----------------------------------------------------------------------------
(* Midnight *)

\* C35: the record stored under the current date has a done count no greater
\* than the number of right daily-mode answers given on that date
C35_DonePerDate ==
    (page = "quiz" /\ history.kept /\ localStorage.daily.kind = "object"
        /\ localStorage.daily.date = JStr(todayKey(clock)))
    => NumberOrZero(localStorage.daily.done) <= history.today

----------------------------------------------------------------------------
(* startDaily *)

\* C36: when startDaily returns the mode is daily, dailyDone is the count
\* stored for today, a new problem is shown and the feedback element shows the
\* announcement of the daily mission
C36_DailyAnnounced ==
    [][ (page = "quiz" /\ ~getItemThrows(localStorage) /\ QCStartDaily) =>
            /\ state'.mode = "daily"
            /\ state'.dailyDone = loadDaily(localStorage, clock)
            /\ state'.q \in Questions
            /\ els'.problem = state'.q.text
            /\ els'.feedback.text = MsgDaily(state.dailyGoal)
      ]_vars

\* C37: whatever the phase in which the script executes and whenever the
\* fetches settle, each page initialiser (MathGame.init, initializeApp,
\* initializeDetailPage) takes effect at most once per page load: the input
\* and search listeners are registered once and one submit is handled once.
C37_InitialisedOnce ==
    LoadAt =>
        /\ call.ret.inits <= 1
        /\ call.ret.listeners <= 1
        /\ call.ret.handled <= 1
        /\ call.ret.detail.calls <= 1
        /\ call.ret.detail.renders <= 1

\* the catalogue initializeDetailPage looks the id up in
DetailUsesFetch == ~(call.arg.windowApps.defined /\ Len(call.arg.windowApps.apps) > 0)
DetailData ==
    IF ~DetailUsesFetch THEN call.arg.windowApps.apps
    ELSE IF call.arg.fetch.result = "ok" THEN call.arg.fetch.apps ELSE <<>>
DetailEnded == DetailAt /\ call.ret.calls > 0 /\ call.ret.pending = 0

\* C38: a call of initializeDetailPage always ends, never throws, and has then
\* rendered into the container exactly once: the detail view whose iframe shows
\* the app with the URL's id, or the not-found alert; it is the not-found alert
\* when the id is missing, when no app of the data has it, and when the fetch
\* fails or answers with a response that is not ok.
C38_DetailOrNotFound ==
    /\ [](DetailAt =>
            /\ ~call.ret.threw
            /\ (DetailEnded /\ call.ret.hasContainer) =>
                  /\ call.ret.renders = 1
                  /\ call.ret.container \in {"detail", "notFound"}
                  /\ call.ret.container = "detail" =>
                        /\ call.arg.url.id.given
                        /\ call.ret.iframe = call.arg.url.id.value
                        /\ \E i \in DOMAIN DetailData : DetailData[i].id = call.ret.iframe
                  /\ (\/ ~call.arg.url.id.given
                      \/ \A i \in DOMAIN DetailData : DetailData[i].id # call.arg.url.id.value
                      \/ DetailUsesFetch /\ call.arg.fetch.result # "ok")
                        => call.ret.container = "notFound")
    /\ [](DetailAt => <>DetailEnded)

C38_Witness ==
    /\ DetailAt
    /\ DetailEnded
    /\ DetailUsesFetch
    /\ call.arg.url.id = Param("shape")
    /\ call.ret.container = "detail"
    /\ call.ret.iframe = "shape"
    /\ call.ret.renders = 1

\* C39: for every input string, QuizCore's pipeline (normalizeDigits, then
\* parseInt(raw, 10), negatives not allowed) accepts the input exactly when
\* MathGame's validateInput reports it valid, and both yield the same integer.
C39_PipelinesAgree ==
    (page = "call" /\ call.kind = "text" /\ call.arg.t = "string"
        /\ call.fn = "validateInput") =>
        /\ call.ret.isValid <=> (checkBranch(call.arg.s, FALSE) = "compare")
        /\ call.ret.isValid => call.ret.value.n = checkAns(call.arg.s)

\* C40: waitForElement always settles and settles once; a poll that finds the
\* element resolves, the maxAttempts-th poll that does not find it rejects, any
\* other poll schedules the next one; there are never more than maxAttempts
\* polls and no timer is left once the promise is settled.
C40_WaitSettlesOnce ==
    /\ [](WaitAt =>
            /\ call.ret.attempts <= call.ret.maxAttempts
            /\ call.ret.settles <= 1
            /\ call.ret.outcome # "pending" => (~call.ret.timer /\ call.ret.settles = 1)
            /\ (call.ret.called /\ call.ret.outcome = "pending") => call.ret.timer)
    /\ [][(WaitAt /\ call'.ret.attempts = call.ret.attempts + 1) =>
            /\ call.ret.outcome = "pending"
            /\ call.ret.present => call'.ret.outcome = "resolved"
            /\ (~call.ret.present /\ call'.ret.attempts = call.ret.maxAttempts)
                  => call'.ret.outcome = "rejected"
            /\ (~call.ret.present /\ call'.ret.attempts < call.ret.maxAttempts)
                  => (call'.ret.outcome = "pending" /\ call'.ret.timer)]_vars
    /\ [](WaitAt => <>(WaitAt /\ call.ret.outcome # "pending"))

C40_Witness ==
    /\ WaitAt
    /\ call.ret.maxAttempts = DefaultAttempts
    /\ call.ret.attempts = DefaultAttempts
    /\ call.ret.outcome = "rejected"
    /\ call.ret.settles = 1
    /\ ~call.ret.timer

====
